---- MODULE Spec2Model ----
(***************************************************************************)
(* A model of the ipni-cli advertisement publisher client (pkg/adpub), its *)
(* block store and entries iterator, and the ad distance engine            *)
(* (pkg/dtrack).                                                           *)
(*                                                                         *)
(* CIDs are pairs <<kind, index>>.  A publisher serves one advertisement   *)
(* chain ad 1 <- ad 2 <- ... <- ad numAds (PreviousID of ad i is ad i-1,   *)
(* ad 1 has none) and one entries chain chunk 1 -> ... -> chunk numChunks  *)
(* (Next of chunk i is chunk i+1, the last chunk has none).  The dagsync   *)
(* subscriber is the environment: a sync walks a chain through the link    *)
(* system, skips blocks the store can read, fetches the others from the    *)
(* publisher and commits each fetched block before it goes on; it can fail *)
(* at any fetch, or before the walk starts.                                *)
(*                                                                         *)
(* Each group of operations has its own specification over the same        *)
(* variables: SpecEntries (entries sync, iterator), SpecAd                 *)
(* (GetAdvertisement), SpecDist (distance queries), SpecList (List).       *)
(***************************************************************************)
EXTENDS Integers, Sequences, FiniteSets, TLC

VARIABLES
    cfg,        \* options of the client / distance engine
    pub,        \* what the publisher hosts
    store,      \* ClientStore: the set of CIDs whose block is held
    pc,         \* the call the client is in, "idle" between calls
    id,         \* SyncEntriesWithRetry: CID the next sync attempt starts at
    recurLimit, \* SyncEntriesWithRetry: depth limit of the next attempt
    attempt,    \* retry loops: the attempt counter
    adCid,      \* syncAdWithRetry: the CID handed to the next ad sync
    hist,       \* history of the call in progress (or last finished)
    ret,        \* what the last finished call returned
    iter,       \* the EntriesIterator of the last decoded advertisement
    cs,         \* AdDistance's countStore
    cr,         \* the crawl command: producer, consumer, channels, context
    trk,        \* the distance tracker: its task, tracks, cache, channel
    vf,         \* the verify ingest command: sampler, walk, results
    hs          \* libp2p hosts and the clients / distance engines on them

\* The state of the commands modelled besides the publisher client.
extVars == <<cr, trk, vf, hs>>

vars == <<cfg, pub, store, pc, id, recurLimit, attempt, adCid, hist, ret, iter, cs, cr, trk,
         vf, hs>>

\* ---------------------------------------------------------------- bounds
MaxChunks == 3
MaxMh == 2
MaxDepthLimit == 3
MaxRetry == 2
MaxAds == 3
MaxFailK == 3
MaxCount == 4
MaxPolls == 2
MaxSeed == 2
MaxBatch == 2
MaxIdx == 3
MaxWalk == 2
MaxHosts == 2
MaxClients == 3
MaxCalls == 4

\* ------------------------------------------------------------------ CIDs
Undef == <<"undef", 0>>
NoEntries == <<"noentries", 0>>
ChunkCid(i) == <<"chunk", i>>
AdCid(i) == <<"ad", i>>

Min(a, b) == IF a < b THEN a ELSE b

isPresent(c) == c /= NoEntries /\ c /= Undef

\* ------------------------------------------------------ publisher content
\* chunk.Next of the entry chunk with CID c.
ChunkNext(c) == IF c[2] < pub.numChunks THEN ChunkCid(c[2] + 1) ELSE Undef

\* chunk.Entries of the entry chunk with CID c: multihashes <<chunk, k>>.
ChunkEntries(c) == [k \in 1..pub.chunkLen[c[2]] |-> <<c[2], k>>]

\* ad.PreviousID of the advertisement with CID a.
PreviousID(a) == IF a[2] > 1 THEN AdCid(a[2] - 1) ELSE Undef

\* ad.Entries of the advertisement with CID a.
AdEntries(a) == IF a[2] % 2 = 1 THEN ChunkCid(1) ELSE NoEntries

HeadCid == AdCid(pub.numAds)

\* Chunk lengths of a chain of m chunks: sizes cycle through 1..MaxMh, and
\* the chunk at position emptyAt (if any) carries no multihash.
ChunkLens(m, emptyAt) ==
    [i \in 1..m |-> IF i = emptyAt THEN 0 ELSE 1 + (i % MaxMh)]

\* ---------------------------------------------------------------- errors
ErrNil == "nil"
ErrTransport == "transport"
ErrMsgContentNotFound == "content not found"
ErrNotExists == "ipld.ErrNotExists"
ErrNotFound == "datastore.ErrNotFound"
ErrEOF == "io.EOF"
ErrContentNotFound == "content not found at publisher"
ErrMaxRetriesEntries == "exceeded maximum retries syncing entries"
ErrMaxRetriesAd == "exceeded maximum retries syncing ad"
ErrNoOldest == "must specify a oldest CID"
ErrDecode == "block is not an EntryChunk"

\* The failures a publisher fetch can end in.
FetchErrs == {ErrTransport, ErrMsgContentNotFound, ErrNotExists}

\* errors.Is(err, ipld.ErrNotExists{}) || strings.Contains(err.Error(), "content not found")
IsContentNotFoundMut(err) == FALSE
IsContentNotFound(err) == err \in {ErrNotExists, ErrMsgContentNotFound}

\* attempt > c.maxSyncRetry
ExceededRetriesMut(a, max) == a > max + 1
ExceededRetries(a, max) == a > max

\* ------------------------------------------------------------ ClientStore
\* A block the publisher serves under an entries link that does not decode
\* as an EntryChunk: LinkSystem.Load with EntryChunkPrototype fails on it.
Unreadable(c) == pub.chunkLen[c[2]] < 0

\* ClientStore.getNextChunkLink: the Next link of a stored chunk.
getNextChunkLink(st, target) ==
    IF target \notin st
    THEN [next |-> Undef, err |-> ErrNotFound]
    ELSE IF Unreadable(target)
    THEN [next |-> Undef, err |-> ErrDecode]
    ELSE [next |-> ChunkNext(target), err |-> ErrNil]

\* ClientStore.getEntriesChunk: a stored chunk, deleted once read when
\* delAfterRead is set.
getEntriesChunkMut(st, target) ==
    IF target \notin st
    THEN [next |-> Undef, mhs |-> <<>>, err |-> ErrNotFound, store |-> st]
    ELSE IF Unreadable(target)
    THEN [next |-> Undef, mhs |-> <<>>, err |-> ErrDecode, store |-> st]
    ELSE [next |-> ChunkNext(target), mhs |-> ChunkEntries(target), err |-> ErrNil,
          store |-> st]
getEntriesChunk(st, target) ==
    IF target \notin st
    THEN [next |-> Undef, mhs |-> <<>>, err |-> ErrNotFound, store |-> st]
    ELSE IF Unreadable(target)
    THEN [next |-> Undef, mhs |-> <<>>, err |-> ErrDecode, store |-> st]
    ELSE [next |-> ChunkNext(target), mhs |-> ChunkEntries(target), err |-> ErrNil,
          store |-> IF cfg.delAfterRead THEN st \ {target} ELSE st]

\* findNextMissingChunkLink: walk the store from next along chunk.Next.
RECURSIVE findNextMissingFrom(_, _, _)
findNextMissingFromMut(st, next, depth) ==
    [next |-> next, depth |-> depth, present |-> TRUE]
findNextMissingFrom(st, next, depth) ==
    IF ~isPresent(next)
    THEN [next |-> Undef, depth |-> depth, present |-> FALSE]
    ELSE LET g == getNextChunkLink(st, next)
         IN IF g.err = ErrNotFound
            THEN [next |-> next, depth |-> depth, present |-> TRUE]
            ELSE findNextMissingFrom(st, g.next, depth + 1)

findNextMissingChunkLink(st, next) == findNextMissingFrom(st, next, 0)

\* recurLimit -= visitedDepth
RemainingLimitMut(limit, visitedDepth) == limit
RemainingLimit(limit, visitedDepth) == limit - visitedDepth

\* --------------------------------------------------------- dagsync: entries
\* The chunks a sync from start with depth limit depth asks for: depth
\* chunks along chunk.Next, the whole chain when depth < 1.
EntriesWindow(start, depth) ==
    LET last == IF depth < 1 THEN pub.numChunks
                ELSE Min(pub.numChunks, start[2] + depth - 1)
    IN {ChunkCid(i) : i \in start[2]..last}

\* sub.SyncEntries(ctx, publisher, start, ScopedDepthLimit(depth)): every
\* way the attempt can end, as the store it leaves and the error it returns.
SyncEntriesOutcomes(st, start, depth) ==
    LET w == EntriesWindow(start, depth)
        missing == w \ st
    IN {[store |-> st \cup missing, err |-> ErrNil]}
       \cup {[store |-> st, err |-> ErrTransport]}
       \cup {[store |-> st \cup {c \in missing : c[2] < f[2]}, err |-> e] :
                f \in missing, e \in FetchErrs}

\* -------------------------------------------------------- EntriesIterator
NoIter ==
    [root |-> Undef, next |-> Undef, hasChunk |-> FALSE, mhs |-> <<>>,
     offset |-> 0, chunkCount |-> 0]

NewIter(root) == [NoIter EXCEPT !.root = root, !.next = root]

NoMh == <<0, 0>>

\* EntriesIterator.Next: the iterator and store it leaves, and what it returns.
IterNext(it, st) ==
    IF ~isPresent(it.root)
    THEN [it |-> it, store |-> st, mh |-> NoMh, err |-> ErrEOF]
    ELSE IF it.hasChunk /\ it.offset < Len(it.mhs)
    THEN [it |-> [it EXCEPT !.offset = @ + 1], store |-> st,
          mh |-> it.mhs[it.offset + 1], err |-> ErrNil]
    ELSE IF ~isPresent(it.next)
    THEN [it |-> it, store |-> st, mh |-> NoMh, err |-> ErrEOF]
    ELSE LET g == getEntriesChunk(st, it.next)
             loaded == [it EXCEPT !.next = g.next, !.hasChunk = TRUE, !.mhs = g.mhs,
                                  !.offset = 0, !.chunkCount = @ + 1]
         IN IF g.err /= ErrNil
            THEN [it |-> it, store |-> st, mh |-> NoMh, err |-> g.err]
            ELSE IF 0 < Len(g.mhs)
            THEN [it |-> [loaded EXCEPT !.offset = 1], store |-> g.store,
                  mh |-> g.mhs[1], err |-> ErrNil]
            ELSE [it |-> loaded, store |-> g.store, mh |-> NoMh, err |-> ErrEOF]

\* EntriesIterator.Drain: Next until io.EOF or an error.
RECURSIVE DrainFrom(_, _, _)
DrainFrom(it, st, mhs) ==
    LET r == IterNext(it, st)
    IN IF r.err = ErrNil THEN DrainFrom(r.it, r.store, Append(mhs, r.mh))
       ELSE IF r.err = ErrEOF THEN [it |-> r.it, store |-> r.store, mhs |-> mhs, err |-> ErrNil]
       ELSE [it |-> r.it, store |-> r.store, mhs |-> mhs, err |-> r.err]

\* ---------------------------------------------------------------- shapes
NoHist ==
    [op |-> "none", root |-> Undef, pre |-> {}, syncs |-> 0, sleeps |-> 0,
     log |-> <<>>, lastErr |-> ErrNil, served |-> 0,
     done |-> FALSE, err |-> ErrNil, cause |-> ErrNil]

NoRet == [op |-> "none", err |-> ErrNil]

NoCs == [count |-> 0, lastKey |-> Undef]

\* The crawl command before it runs: no goroutine, empty open channels.
NoCrawl ==
    [ppc |-> "none", cpc |-> "none", latest |-> Undef, n |-> 0,
     nextCid |-> Undef, i |-> 0, sending |-> Undef, perr |-> ErrNil,
     ads |-> <<>>, adsClosed |-> FALSE, errCh |-> <<>>,
     parentDone |-> FALSE, cancelled |-> FALSE,
     got |-> <<>>, sent |-> <<>>, result |-> ErrNil]

\* const ( errTypeNone = iota ... )
errTypeNone == 0
errTypeNoPublisher == 1
errTypeNoSync == 2
errTypeNotFound == 3
errTypeUpdate == 4

\* Peer IDs of providers.
ProvId(i) == <<"prov", i>>
Providers == {ProvId(1), ProvId(2)}

\* &distTrack{}
NoTrack == [dist |-> 0, head |-> Undef, ad |-> Undef, err |-> <<ErrNil, ErrNil>>,
            errType |-> errTypeNone]

\* No DistanceUpdate.
NoUpdate == [id |-> Undef, dist |-> 0, err |-> <<ErrNil, ErrNil>>]

\* pcache.Get returning nil: the cache has no info for the provider.
NoPinfo == [present |-> FALSE, last |-> Undef, pubOK |-> FALSE]

\* The tracker before RunDistanceTracker.
NoTrk ==
    [tpc |-> "none", ctxDone |-> FALSE, include |-> {}, exclude |-> {},
     lookForNew |-> FALSE, tracks |-> <<>>, todo |-> {}, sending |-> NoUpdate,
     closed |-> FALSE, consumer |-> "recv", pinfo |-> [p \in Providers |-> NoPinfo],
     last |-> [p \in Providers |-> NoUpdate], changed |-> Providers,
     endedBy |-> "none", same |-> FALSE, polls |-> 0,
     at |-> Undef, outcome |-> "none"]

\* &verifyResult{}
NoResult == [total |-> 0, mismatch |-> 0, present |-> 0, absent |-> 0, failed |-> 0]

\* The verify ingest command before it is run.
NoVerify ==
    [vpc |-> "none", run |-> 0, seedArg |-> 0, T |-> 0, rngSeed |-> 0, always |-> FALSE,
     rng |-> 0, batchSize |-> 0, src |-> "none", n |-> 0, sel |-> <<>>, prevSel |-> <<>>,
     adDepthLimit |-> 0, i |-> 0, ctxIDRm |-> <<>>, rmSeen |-> {}, hasPrev |-> TRUE,
     last |-> [isRm |-> FALSE, ctx |-> "", afterRm |-> FALSE, noLonger |-> FALSE,
               submitted |-> 0],
     batch |-> NoResult, res |-> NoResult, agg |-> NoResult]

\* No libp2p host and no client yet.
NoHosts ==
    [hosts |-> <<>>, clients |-> <<>>,
     last |-> [kind |-> "none", opts |-> <<>>, err |-> ErrNil, madeHost |-> FALSE,
               madeSub |-> FALSE, task |-> FALSE]]

\* No other command is running.
ExtIdle == cr = NoCrawl /\ trk = NoTrk /\ vf = NoVerify /\ hs = NoHosts

StoredChunks(st) == {c \in st : c[1] = "chunk"}

\* ------------------------------------------------ SyncEntriesWithRetry
\* A caller starts client.SyncEntriesWithRetry(ctx, ad.Entries.Root()).
SyncEntriesWithRetry ==
    /\ pc = "idle"
    /\ isPresent(iter.root)
    /\ pc' = "SyncEntriesWithRetry"
    /\ id' = iter.root
    /\ recurLimit' = cfg.entriesDepthLimit
    /\ attempt' = 0
    /\ hist' = [NoHist EXCEPT !.op = "SyncEntriesWithRetry", !.root = iter.root,
                              !.pre = StoredChunks(store)]
    /\ ret' = NoRet
    /\ UNCHANGED <<cfg, pub, store, adCid, iter, cs>>
    /\ UNCHANGED extVars

\* One iteration of the loop of client.SyncEntriesWithRetry: a sync
\* attempt, then return or prepare the retry and sleep.
SyncEntriesAttempt ==
    /\ pc = "SyncEntriesWithRetry"
    /\ \E o \in SyncEntriesOutcomes(store, id, recurLimit) :
        LET h == [hist EXCEPT !.syncs = @ + 1, !.log = Append(@, <<id, recurLimit>>),
                              !.lastErr = o.err,
                              !.served = Cardinality(o.store \ store)]
            m == findNextMissingChunkLink(o.store, id)
            done(e, cause) ==
                /\ pc' = "idle"
                /\ hist' = [h EXCEPT !.done = TRUE, !.err = e, !.cause = cause]
                /\ UNCHANGED <<id, recurLimit>>
        IN /\ store' = o.store
           /\ IF o.err = ErrNil
              THEN done(ErrNil, ErrNil) /\ UNCHANGED attempt
              ELSE IF IsContentNotFound(o.err)
              THEN done(ErrContentNotFound, ErrNil) /\ UNCHANGED attempt
              ELSE /\ attempt' = attempt + 1
                   /\ IF ExceededRetries(attempt + 1, cfg.maxSyncRetry)
                      THEN done(ErrMaxRetriesEntries, o.err)
                      ELSE IF ~m.present
                      THEN done(ErrNil, ErrNil)
                      ELSE /\ id' = m.next
                           /\ recurLimit' = RemainingLimit(recurLimit, m.depth)
                           /\ hist' = [h EXCEPT !.sleeps = @ + 1]
                           /\ UNCHANGED pc
    /\ UNCHANGED <<cfg, pub, adCid, ret, iter, cs>>
    /\ UNCHANGED extVars

\* ClientStore.getAdvertisement on a synced advertisement: the decoded
\* record carries a fresh EntriesIterator over ad.Entries.
getAdvertisement ==
    /\ pc = "idle"
    /\ \E a \in {c \in store : c[1] = "ad"} :
        /\ store' = IF cfg.delAfterRead THEN store \ {a} ELSE store
        /\ iter' = IF AdEntries(a) /= Undef THEN NewIter(AdEntries(a)) ELSE NoIter
        /\ ret' = [op |-> "getAdvertisement", err |-> ErrNil]
    /\ hist' = NoHist
    /\ UNCHANGED <<cfg, pub, pc, id, recurLimit, attempt, adCid, cs>>
    /\ UNCHANGED extVars

\* ad.Entries.Drain() by a caller.
Drain ==
    /\ pc = "idle"
    /\ isPresent(iter.root)
    /\ LET d == DrainFrom(iter, store, <<>>)
       IN /\ iter' = d.it
          /\ store' = d.store
          /\ ret' = [op |-> "Drain", err |-> d.err, mhs |-> d.mhs,
                     from |-> iter, pre |-> StoredChunks(store)]
    /\ UNCHANGED <<cfg, pub, pc, id, recurLimit, attempt, adCid, hist, cs>>
    /\ UNCHANGED extVars

\* ------------------------------------------------------------- SpecEntries
\* A client that holds one synced advertisement of a publisher with an
\* entries chain; entries are synced and drained, any number of times.
InitEntries ==
    /\ \E l \in 0..MaxDepthLimit, r \in 0..MaxRetry, del \in BOOLEAN :
        cfg = [entriesDepthLimit |-> l, adChainDepthLimit |-> 0, maxSyncRetry |-> r,
               delAfterRead |-> del]
    /\ \E m \in 1..MaxChunks : \E e \in 0..m :
        pub = [numChunks |-> m, chunkLen |-> ChunkLens(m, e), numAds |-> 1]
    /\ store = {AdCid(1)}
    /\ pc = "idle"
    /\ id = Undef
    /\ recurLimit = 0
    /\ attempt = 0
    /\ adCid = Undef
    /\ hist = NoHist
    /\ ret = NoRet
    /\ iter = NoIter
    /\ cs = NoCs
    /\ ExtIdle

NextEntries ==
    \/ getAdvertisement
    \/ SyncEntriesWithRetry
    \/ SyncEntriesAttempt
    \/ Drain

SpecEntries == InitEntries /\ [][NextEntries]_vars

\* The same client and publisher, except that the last block of the
\* entries chain is not an EntryChunk (the sync stores any block it is
\* served; only reading it as a chunk fails).
InitUnreadable ==
    /\ \E l \in 0..MaxDepthLimit, r \in 0..MaxRetry, del \in BOOLEAN :
        cfg = [entriesDepthLimit |-> l, adChainDepthLimit |-> 0, maxSyncRetry |-> r,
               delAfterRead |-> del]
    /\ \E m \in 1..MaxChunks :
        pub = [numChunks |-> m,
               chunkLen |-> [i \in 1..m |-> IF i = m THEN -1 ELSE ChunkLens(m, 0)[i]],
               numAds |-> 1]
    /\ store = {AdCid(1)}
    /\ pc = "idle"
    /\ id = Undef
    /\ recurLimit = 0
    /\ attempt = 0
    /\ adCid = Undef
    /\ hist = NoHist
    /\ ret = NoRet
    /\ iter = NoIter
    /\ cs = NoCs
    /\ ExtIdle

SpecUnreadable == InitUnreadable /\ [][NextEntries]_vars

\* The retry loop runs on by itself: a call that has started makes its next
\* attempt (the backoff sleep is finite).
SpecEntriesLive == SpecEntries /\ WF_vars(SyncEntriesAttempt)


\* ---------------------------------------------------- GetAdvertisement
NoAdHist ==
    [op |-> "none", arg |-> Undef, failK |-> 0, fetches |-> 0, local |-> FALSE,
     syncs |-> 0, sleeps |-> 0, lastErr |-> ErrNil,
     done |-> FALSE, err |-> ErrNil, cause |-> ErrNil, ad |-> Undef]

AdCids == {AdCid(i) : i \in 1..pub.numAds}

\* The advertisement a sync with WithHeadAdCid(c) starts at: the
\* publisher's head when c is undefined.
ResolveHead(c) == IF c = Undef THEN HeadCid ELSE c

\* sub.SyncAdChain(ctx, publisher, WithHeadAdCid(c), ScopedDepthLimit(1)) against
\* a publisher that fails its first failK requests: a defined CID whose
\* block the store holds is read locally; otherwise the publisher is asked
\* (request number fetches + 1) and the block fetched is committed.  An
\* error comes with cid.Undef.
SyncAdOutcomes(st, c, failK, fetches) ==
    IF c /= Undef /\ c \in st
    THEN {[store |-> st, cid |-> c, err |-> ErrNil, asked |-> FALSE]}
    ELSE IF fetches < failK
    THEN {[store |-> st, cid |-> Undef, err |-> e, asked |-> TRUE] : e \in FetchErrs}
    ELSE {[store |-> st \cup {ResolveHead(c)}, cid |-> ResolveHead(c), err |-> ErrNil,
           asked |-> TRUE]}

\* c.maxSyncRetry == 0 in syncAdWithRetry: the single-attempt path.
NoRetry(max) == max = 0

\* attempt > c.maxSyncRetry in syncAdWithRetry
AdExceededRetriesMut(a, max) == a >= max
AdExceededRetries(a, max) == a > max

\* A caller starts client.GetAdvertisement(ctx, a); the publisher will fail
\* its first k requests.
GetAdvertisement ==
    /\ pc = "idle"
    /\ \E a \in AdCids \cup {Undef}, k \in 0..MaxFailK :
        /\ adCid' = a
        /\ hist' = [NoAdHist EXCEPT !.op = "GetAdvertisement", !.arg = a, !.failK = k,
                                    !.local = (a /= Undef /\ a \in store)]
    /\ pc' = "GetAdvertisement"
    /\ attempt' = 0
    /\ ret' = NoRet
    /\ iter' = NoIter
    /\ UNCHANGED <<cfg, pub, store, id, recurLimit, cs>>
    /\ UNCHANGED extVars

\* One sync attempt of syncAdWithRetry; on success GetAdvertisement goes on
\* to load and decode the advertisement from the store.
SyncAdAttempt ==
    /\ pc = "GetAdvertisement"
    /\ \E o \in SyncAdOutcomes(store, adCid, hist.failK, hist.fetches) :
        LET h == [hist EXCEPT !.syncs = @ + 1, !.lastErr = o.err,
                              !.fetches = IF o.asked THEN @ + 1 ELSE @]
            fail(e, cause) ==
                /\ pc' = "idle"
                /\ hist' = [h EXCEPT !.done = TRUE, !.err = e, !.cause = cause]
                /\ store' = o.store
                /\ UNCHANGED iter
            loaded ==
                /\ pc' = "idle"
                /\ hist' = [h EXCEPT !.done = TRUE, !.ad = o.cid]
                /\ store' = IF cfg.delAfterRead THEN o.store \ {o.cid} ELSE o.store
                /\ iter' = IF AdEntries(o.cid) /= Undef THEN NewIter(AdEntries(o.cid))
                           ELSE NoIter
        IN IF NoRetry(cfg.maxSyncRetry)
           THEN /\ adCid' = o.cid
                /\ UNCHANGED attempt
                /\ IF o.err = ErrNil THEN loaded
                   ELSE IF IsContentNotFound(o.err) THEN fail(ErrContentNotFound, ErrNil)
                   ELSE fail(o.err, ErrNil)
           ELSE /\ adCid' = o.cid
                /\ IF o.err = ErrNil
                   THEN loaded /\ UNCHANGED attempt
                   ELSE /\ attempt' = attempt + 1
                        /\ IF AdExceededRetries(attempt + 1, cfg.maxSyncRetry)
                           THEN fail(ErrMaxRetriesAd, o.err)
                           ELSE /\ hist' = [h EXCEPT !.sleeps = @ + 1]
                                /\ store' = o.store
                                /\ UNCHANGED <<pc, iter>>
    /\ UNCHANGED <<cfg, pub, id, recurLimit, ret, cs>>
    /\ UNCHANGED extVars

\* ------------------------------------------------------------------ SpecAd
\* A client of a publisher with an advertisement chain; advertisements are
\* fetched one call after the other.
InitAd ==
    /\ \E r \in 0..MaxRetry, del \in BOOLEAN :
        cfg = [entriesDepthLimit |-> 0, adChainDepthLimit |-> 0, maxSyncRetry |-> r,
               delAfterRead |-> del]
    /\ \E n \in 1..MaxAds :
        pub = [numChunks |-> 1, chunkLen |-> ChunkLens(1, 0), numAds |-> n]
    /\ store = {}
    /\ pc = "idle"
    /\ id = Undef
    /\ recurLimit = 0
    /\ attempt = 0
    /\ adCid = Undef
    /\ hist = NoAdHist
    /\ ret = NoRet
    /\ iter = NoIter
    /\ cs = NoCs
    /\ ExtIdle

NextAd ==
    \/ GetAdvertisement
    \/ SyncAdAttempt

SpecAd == InitAd /\ [][NextAd]_vars

\* ------------------------------------------------------- dagsync: ad chain
\* The advertisements a recursive PreviousID walk from c visits, newest
\* first: it ends before the stop CID, at the advertisement without
\* PreviousID, or after depth advertisements (no limit when depth < 1).
RECURSIVE AdWalk(_, _, _)
AdWalk(c, stop, depth) ==
    IF c = Undef \/ c = stop THEN <<>>
    ELSE IF depth = 1 THEN <<c>>
    ELSE <<c>> \o AdWalk(PreviousID(c), stop, IF depth < 1 THEN depth ELSE depth - 1)

\* countStore: commit counts the block and remembers it; only the
\* remembered block can be read back.
CountCommit(c0, c) == [count |-> c0.count + 1, lastKey |-> c]

RECURSIVE CountCommitAll(_, _)
\* The count store after a walk over blocks: a block it can read is not
\* fetched, every other block is fetched and committed.
CountCommitAll(c0, blocks) ==
    IF blocks = <<>> THEN c0
    ELSE CountCommitAll(IF c0.lastKey = blocks[1] THEN c0 ELSE CountCommit(c0, blocks[1]),
                        Tail(blocks))

\* sub.SyncAdChain(ctx, publisher, ScopedDepthLimit(depth), WithHeadAdCid(newest),
\* WithStopAdCid(oldest)) over a count store: every way it can end.  It
\* fails before the walk, or at the fetch of any block it cannot read.
SyncAdChainCountOutcomes(c0, newest, oldest, depth) ==
    LET w == AdWalk(ResolveHead(newest), oldest, depth)
    IN {[cs |-> CountCommitAll(c0, w), cid |-> ResolveHead(newest), err |-> ErrNil]}
       \cup {[cs |-> c0, cid |-> Undef, err |-> ErrTransport]}
       \cup {[cs |-> CountCommitAll(c0, SubSeq(w, 1, i - 1)), cid |-> Undef, err |-> e] :
                i \in {j \in 1..Len(w) :
                         CountCommitAll(c0, SubSeq(w, 1, j - 1)).lastKey /= w[j]},
                e \in FetchErrs}

\* depthLimit = limit + 1 unless limit == 0
StopDepth(limit) == IF limit /= 0 THEN limit + 1 ELSE 0

\* if int64(dist) > limit { dist = -1 }
LimitDist(dist, limit) == IF dist > limit THEN -1 ELSE dist

\* What a distance query returns.
DistRet(op, oldest, arg, newest, dist, err) ==
    [op |-> op, oldest |-> oldest, arg |-> arg, newest |-> newest, dist |-> dist,
     err |-> err]

\* client.Distance(ctx, oldestCid, newestCid): a count store made for the
\* call, which reads nothing back and counts every block committed.
Distance ==
    /\ pc = "idle"
    /\ \E oldest \in AdCids \cup {Undef}, newest \in AdCids \cup {Undef} :
        IF oldest = Undef
        THEN ret' = DistRet("Distance", oldest, newest, Undef, 0, ErrNoOldest)
        ELSE \E o \in SyncAdChainCountOutcomes(NoCs, newest, oldest,
                                               StopDepth(cfg.adChainDepthLimit)) :
                ret' = IF o.err /= ErrNil
                       THEN DistRet("Distance", oldest, newest, Undef, 0, o.err)
                       ELSE DistRet("Distance", oldest, newest, o.cid,
                                    LimitDist(o.cs.count, cfg.adChainDepthLimit), ErrNil)
    /\ UNCHANGED <<cfg, pub, store, pc, id, recurLimit, attempt, adCid, hist, iter, cs>>
    /\ UNCHANGED extVars

\* AdDistance.Get(ctx, publisher, oldestCid, newestCid): the engine's own
\* count store, read and cleared by countStore.distance() after a sync
\* that succeeded.
AdDistanceGet ==
    /\ pc = "idle"
    /\ cs.count < MaxCount
    /\ \E oldest \in AdCids \cup {Undef}, newest \in AdCids \cup {Undef} :
        IF oldest = Undef
        THEN /\ ret' = DistRet("AdDistance.Get", oldest, newest, Undef, 0, ErrNoOldest)
             /\ cs' = cs
        ELSE \E o \in SyncAdChainCountOutcomes(cs, newest, oldest,
                                               StopDepth(cfg.adChainDepthLimit)) :
                IF o.err /= ErrNil
                THEN /\ ret' = DistRet("AdDistance.Get", oldest, newest, Undef, 0, o.err)
                     /\ cs' = o.cs
                ELSE /\ ret' = DistRet("AdDistance.Get", oldest, newest, o.cid,
                                       LimitDist(o.cs.count, cfg.adChainDepthLimit), ErrNil)
                     /\ cs' = NoCs
    /\ UNCHANGED <<cfg, pub, store, pc, id, recurLimit, attempt, adCid, hist, iter>>
    /\ UNCHANGED extVars

\* --------------------------------------------------------------- SpecDist
\* A client and a distance engine with the same ad chain depth limit,
\* queried any number of times.
InitDist ==
    /\ \E l \in 0..MaxDepthLimit :
        cfg = [entriesDepthLimit |-> 0, adChainDepthLimit |-> l, maxSyncRetry |-> 0,
               delAfterRead |-> FALSE]
    /\ \E n \in 1..MaxAds :
        pub = [numChunks |-> 1, chunkLen |-> ChunkLens(1, 0), numAds |-> n]
    /\ store = {}
    /\ pc = "idle"
    /\ id = Undef
    /\ recurLimit = 0
    /\ attempt = 0
    /\ adCid = Undef
    /\ hist = NoHist
    /\ ret = NoRet
    /\ iter = NoIter
    /\ cs = NoCs
    /\ ExtIdle

NextDist ==
    \/ Distance
    \/ AdDistanceGet

SpecDist == InitDist /\ [][NextDist]_vars

\* ------------------------------------------------------------------- List
\* sub.SyncAdChain(ctx, publisher, WithHeadAdCid(latest), ScopedDepthLimit(n)) into
\* the client's store: every way it can end.
SyncAdChainOutcomes(st, latest, n) ==
    LET w == AdWalk(ResolveHead(latest), Undef, n)
        missing == {i \in 1..Len(w) : w[i] \notin st}
    IN {[store |-> st \cup {w[i] : i \in missing}, cid |-> ResolveHead(latest),
         err |-> ErrNil, got |-> {w[i] : i \in missing}, seen |-> {w[i] : i \in 1..Len(w)}]}
       \cup {[store |-> st, cid |-> Undef, err |-> ErrTransport, got |-> {}, seen |-> {}]}
       \cup {[store |-> st \cup {w[i] : i \in {j \in missing : j < f}}, cid |-> Undef,
              err |-> e, got |-> {w[i] : i \in {j \in missing : j < f}},
              seen |-> {w[i] : i \in 1..(f - 1)}] : f \in missing, e \in FetchErrs}

\* const syncSegmentSize
syncSegmentSize == 2048

\* The sync of List when n > syncSegmentSize: the block hook made from
\* prevAdCid calls loadAd on the advertisements the sync hands it, which
\* deletes them when delAfterRead is set.  Whether the hook is handed the
\* blocks the store already held is the subscriber's choice.
SegmentedSyncOutcomes(st, latest, n) ==
    LET outs == SyncAdChainOutcomes(st, latest, n)
    IN IF ~cfg.delAfterRead THEN outs
       ELSE {[o EXCEPT !.store = @ \ o.got] : o \in outs}
            \cup {[o EXCEPT !.store = @ \ o.seen] : o \in outs}

\* The sync client.List runs for n.
ListSyncOutcomes(st, latest, n) ==
    IF n > syncSegmentSize THEN SegmentedSyncOutcomes(st, latest, n)
    ELSE SyncAdChainOutcomes(st, latest, n)

\* The values of n a List call is made with.
ListCounts == (-1..MaxAds) \cup {syncSegmentSize + 1}

\* ClientStore.loadAd: the stored advertisement, deleted once read when
\* delAfterRead is set.
loadAd(st, c) ==
    IF c \notin st
    THEN [prev |-> Undef, err |-> ErrNotFound, store |-> st]
    ELSE [prev |-> PreviousID(c), err |-> ErrNil,
          store |-> IF cfg.delAfterRead THEN st \ {c} ELSE st]

\* for i := 0; i < n; i++ in ClientStore.list
ListGoesOnMut(i, n) == i <= n
ListGoesOn(i, n) == i < n

\* ClientStore.list: the lines written, the error returned and the store left.
RECURSIVE listFrom(_, _, _, _, _)
listFrom(st, nextCid, i, n, out) ==
    IF ~ListGoesOn(i, n) THEN [out |-> out, err |-> ErrNil, store |-> st]
    ELSE LET l == loadAd(st, nextCid)
         IN IF l.err /= ErrNil THEN [out |-> out, err |-> l.err, store |-> st]
            ELSE IF l.prev = Undef
            THEN [out |-> Append(out, nextCid), err |-> ErrNil, store |-> l.store]
            ELSE listFrom(l.store, l.prev, i + 1, n, Append(out, nextCid))

\* client.List(ctx, latestCid, n, w): sync the chain, then list it.
List ==
    /\ pc = "idle"
    /\ \E latest \in AdCids \cup {Undef}, n \in ListCounts :
        \E o \in ListSyncOutcomes(store, latest, n) :
            LET l == listFrom(o.store, o.cid, 0, n, <<>>)
            IN IF o.err /= ErrNil
               THEN /\ store' = o.store
                    /\ ret' = [op |-> "List", latest |-> latest, head |-> Undef, n |-> n,
                               out |-> <<>>, err |-> o.err]
               ELSE /\ store' = l.store
                    /\ ret' = [op |-> "List", latest |-> latest, head |-> o.cid, n |-> n,
                               out |-> l.out, err |-> l.err]
    /\ UNCHANGED <<cfg, pub, pc, id, recurLimit, attempt, adCid, hist, iter, cs>>
    /\ UNCHANGED extVars

\* --------------------------------------------------------------- SpecList
\* A client listing advertisements of a publisher, call after call.
InitList ==
    /\ \E del \in BOOLEAN :
        cfg = [entriesDepthLimit |-> 0, adChainDepthLimit |-> 0, maxSyncRetry |-> 0,
               delAfterRead |-> del]
    /\ \E n \in 1..MaxAds :
        pub = [numChunks |-> 1, chunkLen |-> ChunkLens(1, 0), numAds |-> n]
    /\ store = {}
    /\ pc = "idle"
    /\ id = Undef
    /\ recurLimit = 0
    /\ attempt = 0
    /\ adCid = Undef
    /\ hist = NoHist
    /\ ret = NoRet
    /\ iter = NoIter
    /\ cs = NoCs
    /\ ExtIdle

NextList == List

SpecList == InitList /\ [][NextList]_vars

\* ------------------------------------------------------------------ crawl
\* make(chan *adpub.Advertisement, 1) and make(chan error, 1)
adsCap == 1
errChCap == 1

\* <-ctx.Done() of the context adsCrawlAction derives from the command's
\* context: ready once the command's context is done or cancel() was called.
CtxDoneMut(c) == FALSE
CtxDone(c) == c.parentDone \/ c.cancelled

\* The variables the crawl command leaves alone.
crawlOther == <<cfg, pub, pc, id, recurLimit, attempt, adCid, hist, ret, iter, cs, trk, vf,
               hs>>

\* adsCrawlAction up to the range loop: derive the context, make the
\* channels and start the goroutine that runs Crawl.
adsCrawlAction ==
    /\ pc = "idle"
    /\ cr.ppc = "none"
    /\ \E latest \in AdCids \cup {Undef}, n \in -1..MaxAds :
        cr' = [cr EXCEPT !.ppc = "Crawl", !.cpc = "range", !.latest = latest, !.n = n]
    /\ UNCHANGED <<store, crawlOther>>

\* client.Crawl: sync the chain from latestCid, then crawl the store.
Crawl ==
    /\ cr.ppc = "Crawl"
    /\ \E o \in SyncAdChainOutcomes(store, cr.latest, cr.n) :
        /\ store' = o.store
        /\ cr' = IF o.err /= ErrNil
                 THEN [cr EXCEPT !.ppc = "ret", !.perr = o.err]
                 ELSE [cr EXCEPT !.ppc = "crawl", !.nextCid = o.cid, !.i = 0]
    /\ UNCHANGED crawlOther

\* ClientStore.crawl, loop head to the select: leave the loop after n
\* advertisements, else load the next one.
crawlLoad ==
    /\ cr.ppc = "crawl"
    /\ IF ~(cr.i < cr.n)
       THEN /\ cr' = [cr EXCEPT !.ppc = "ret", !.perr = ErrNil]
            /\ UNCHANGED store
       ELSE LET l == loadAd(store, cr.nextCid)
            IN IF l.err /= ErrNil
               THEN /\ cr' = [cr EXCEPT !.ppc = "ret", !.perr = l.err]
                    /\ UNCHANGED store
               ELSE /\ cr' = [cr EXCEPT !.ppc = "select", !.sending = cr.nextCid]
                    /\ store' = l.store
    /\ UNCHANGED crawlOther

\* ClientStore.crawl, case ads <- a: and the rest of the loop body.
crawlSend ==
    /\ cr.ppc = "select"
    /\ Len(cr.ads) < adsCap
    /\ cr' = IF PreviousID(cr.sending) = Undef
             THEN [cr EXCEPT !.ads = Append(@, cr.sending), !.sent = Append(@, cr.sending),
                             !.ppc = "ret", !.perr = ErrNil]
             ELSE [cr EXCEPT !.ads = Append(@, cr.sending), !.sent = Append(@, cr.sending),
                             !.ppc = "crawl", !.nextCid = PreviousID(cr.sending),
                             !.i = @ + 1]
    /\ UNCHANGED <<store, crawlOther>>

\* ClientStore.crawl, case <-ctx.Done(): return cid.Undef, nil
crawlCtxDone ==
    /\ cr.ppc = "select"
    /\ CtxDone(cr)
    /\ cr' = [cr EXCEPT !.ppc = "ret", !.perr = ErrNil]
    /\ UNCHANGED <<store, crawlOther>>

\* the goroutine: errCh <- provClient.Crawl(...)
CrawlReturn ==
    /\ cr.ppc = "ret"
    /\ Len(cr.errCh) < errChCap
    /\ cr' = [cr EXCEPT !.errCh = Append(@, cr.perr), !.ppc = "close"]
    /\ UNCHANGED <<store, crawlOther>>

\* the goroutine: close(ads)
CloseAds ==
    /\ cr.ppc = "close"
    /\ cr' = [cr EXCEPT !.adsClosed = TRUE, !.ppc = "end"]
    /\ UNCHANGED <<store, crawlOther>>

\* for ad := range ads: receive the next advertisement
RangeReceive ==
    /\ cr.cpc = "range"
    /\ cr.ads /= <<>>
    /\ cr' = [cr EXCEPT !.ads = Tail(@), !.got = Append(@, Head(cr.ads)), !.cpc = "body"]
    /\ UNCHANGED <<store, crawlOther>>

\* for ad := range ads: the channel is closed and drained
RangeEnd ==
    /\ cr.cpc = "range"
    /\ cr.ads = <<>>
    /\ cr.adsClosed
    /\ cr' = [cr EXCEPT !.cpc = "cancel"]
    /\ UNCHANGED <<store, crawlOther>>

\* The body of the range loop: go on to the next advertisement, break when
\* stopMhs is reached, or return the error of Drain (the deferred cancel
\* then runs and errCh is never read).
RangeBody ==
    /\ cr.cpc = "body"
    /\ \/ cr' = [cr EXCEPT !.cpc = "range"]
       \/ cr' = [cr EXCEPT !.cpc = "cancel"]
       \/ cr' = [cr EXCEPT !.cpc = "done", !.cancelled = TRUE, !.result = ErrTransport]
    /\ UNCHANGED <<store, crawlOther>>

\* cancel() after the range loop
CrawlCancel ==
    /\ cr.cpc = "cancel"
    /\ cr' = [cr EXCEPT !.cancelled = TRUE, !.cpc = "wait"]
    /\ UNCHANGED <<store, crawlOther>>

\* err = <-errCh
CrawlWait ==
    /\ cr.cpc = "wait"
    /\ cr.errCh /= <<>>
    /\ cr' = [cr EXCEPT !.errCh = Tail(@), !.result = Head(cr.errCh), !.cpc = "done"]
    /\ UNCHANGED <<store, crawlOther>>

\* The command's own context is cancelled (signal, timeout of the caller).
ParentCancel ==
    /\ cr.ppc /= "none"
    /\ ~cr.parentDone
    /\ cr' = [cr EXCEPT !.parentDone = TRUE]
    /\ UNCHANGED <<store, crawlOther>>

\* -------------------------------------------------------------- SpecCrawl
InitCrawl ==
    /\ \E del \in BOOLEAN :
        cfg = [entriesDepthLimit |-> 0, adChainDepthLimit |-> 0, maxSyncRetry |-> 0,
               delAfterRead |-> del]
    /\ \E n \in 1..MaxAds :
        pub = [numChunks |-> 1, chunkLen |-> ChunkLens(1, 0), numAds |-> n]
    /\ store = {}
    /\ pc = "idle"
    /\ id = Undef
    /\ recurLimit = 0
    /\ attempt = 0
    /\ adCid = Undef
    /\ hist = NoHist
    /\ ret = NoRet
    /\ iter = NoIter
    /\ cs = NoCs
    /\ ExtIdle

\* The steps of the goroutine that runs Crawl.
CrawlProducer == Crawl \/ crawlLoad \/ crawlSend \/ crawlCtxDone \/ CrawlReturn \/ CloseAds

\* The steps of adsCrawlAction after it started the goroutine.
CrawlConsumer == RangeReceive \/ RangeEnd \/ RangeBody \/ CrawlCancel \/ CrawlWait

NextCrawl ==
    \/ adsCrawlAction
    \/ Crawl
    \/ crawlLoad
    \/ crawlSend
    \/ crawlCtxDone
    \/ CrawlReturn
    \/ CloseAds
    \/ RangeReceive
    \/ RangeEnd
    \/ RangeBody
    \/ CrawlCancel
    \/ CrawlWait
    \/ ParentCancel

\* Both goroutines keep running while they can take a step; the select
\* takes a case that stays ready.
SpecCrawl ==
    /\ InitCrawl
    /\ [][NextCrawl]_vars
    /\ WF_vars(CrawlProducer)
    /\ WF_vars(CrawlConsumer)

\* ---------------------------------------------------------------- tracker
\* Messages of the updates that carry an error.
ErrInfoNotFound == "provider info not found"
ErrNeverSynced == "provider never synced"
ErrNoPublisher == "no advertisement publisher"
ErrHeadToLastSeenAd == "cannot get distance from chain head to last seen ad"
ErrHeadToLastSeenHead == "cannot get distance from chain head to last seen head"
ErrLastAdMoved == "cannot get distance distance last as has moved"

\* tkr.adDist.Get(ctx, publisher, oldest, newest) on count store c0: every
\* way it can end, with the count store it leaves.
GetOutcomes(c0, oldest, newest) ==
    IF oldest = Undef
    THEN {[dist |-> 0, head |-> Undef, err |-> ErrNoOldest, cs |-> c0]}
    ELSE {IF o.err /= ErrNil
          THEN [dist |-> 0, head |-> Undef, err |-> o.err, cs |-> o.cs]
          ELSE [dist |-> LimitDist(o.cs.count, cfg.adChainDepthLimit), head |-> o.cid,
                err |-> ErrNil, cs |-> NoCs] :
            o \in {x \in SyncAdChainCountOutcomes(c0, newest, oldest,
                                                  StopDepth(cfg.adChainDepthLimit)) :
                      x.cs.count <= MaxCount}}

\* if track.errType != kind { track.errType = kind; track.err = ...; send }
Edge(t, pid, kind, msg, cause, c0) ==
    IF t.errType /= kind
    THEN [track |-> [t EXCEPT !.errType = kind, !.err = <<msg, cause>>], cs |-> c0,
          upd |-> [id |-> pid, dist |-> 0, err |-> <<msg, cause>>]]
    ELSE [track |-> t, cs |-> c0, upd |-> NoUpdate]

\* track.err = nil; track.errType = errTypeNone
Cleared(t) == [t EXCEPT !.err = <<ErrNil, ErrNil>>, !.errType = errTypeNone]

\* A DistanceUpdate that carries a distance.
DistUpdate(pid, dist) == [id |-> pid, dist |-> dist, err |-> <<ErrNil, ErrNil>>]

\* updateTrack, track.head == cid.Undef: the first good observation.
FirstObservation(t, pid, pi, c0) ==
    {IF o.err /= ErrNil
     THEN Edge(t, pid, errTypeUpdate, ErrHeadToLastSeenAd, o.err, o.cs)
     ELSE [track |-> [Cleared(t) EXCEPT !.ad = pi.last, !.dist = o.dist,
                                        !.head = IF o.dist /= -1 THEN o.head ELSE @],
           cs |-> o.cs, upd |-> DistUpdate(pid, o.dist)] :
        o \in GetOutcomes(c0, pi.last, Undef)}

\* updateTrack from "if pinfo.LastAdvertisement != track.ad" on: t is the
\* track after the head query, updated says whether the head moved.
LastAdMoved(t, pid, pi, c0, updated) ==
    IF pi.last = t.ad
    THEN {[track |-> t, cs |-> c0,
           upd |-> IF updated THEN DistUpdate(pid, t.dist) ELSE NoUpdate]}
    ELSE {IF o.err /= ErrNil
          THEN Edge(t, pid, errTypeUpdate, ErrLastAdMoved, o.err, o.cs)
          ELSE IF o.dist = -1
          THEN [track |-> [Cleared(t) EXCEPT !.dist = -1, !.head = Undef], cs |-> o.cs,
                upd |-> DistUpdate(pid, -1)]
          ELSE [track |-> [Cleared(t) EXCEPT !.ad = pi.last, !.dist = @ - o.dist],
                cs |-> o.cs, upd |-> DistUpdate(pid, t.dist - o.dist)] :
            o \in GetOutcomes(c0, t.ad, pi.last)}

\* updateTrack with a memoized head: distance from the old head to the new
\* one, then the move of the last seen advertisement.
LaterObservation(t, pid, pi, c0) ==
    UNION {IF o.err /= ErrNil
           THEN {Edge(t, pid, errTypeUpdate, ErrHeadToLastSeenHead, o.err, o.cs)}
           ELSE IF o.dist = -1
           THEN {[track |-> [Cleared(t) EXCEPT !.dist = -1, !.head = Undef], cs |-> o.cs,
                  upd |-> DistUpdate(pid, -1)]}
           ELSE IF o.head /= t.head
           THEN LastAdMoved([Cleared(t) EXCEPT !.dist = @ + o.dist, !.head = o.head],
                            pid, pi, o.cs, TRUE)
           ELSE LastAdMoved(Cleared(t), pid, pi, o.cs, FALSE) :
        o \in GetOutcomes(c0, t.head, Undef)}

\* tracker.updateTrack after pcache.Get returned pi without error: the
\* track and count store it leaves and the update it sends, if any.
updateTrackOutcomes(t, pid, pi, c0) ==
    IF ~pi.present
    THEN {Edge(t, pid, errTypeNotFound, ErrInfoNotFound, ErrNil, c0)}
    ELSE IF pi.last = Undef
    THEN {Edge(t, pid, errTypeNoSync, ErrNeverSynced, ErrNil, c0)}
    ELSE IF ~pi.pubOK
    THEN {Edge(t, pid, errTypeNoPublisher, ErrNoPublisher, ErrNil, c0)}
    ELSE IF t.head = Undef
    THEN FirstObservation(t, pid, pi, c0)
    ELSE LaterObservation(t, pid, pi, c0)

\* if _, ok := tkr.exclude[pid]; ok { continue }
ExcludedMut(pid, exclude) == FALSE
Excluded(pid, exclude) == pid \in exclude

\* What the cache can hold for a provider: nothing, or its last
\* advertisement (undefined when never synced) and whether it names a
\* usable publisher.
PinfoChoices ==
    {NoPinfo} \cup {[present |-> TRUE, last |-> l, pubOK |-> ok] :
                      l \in {a \in AdCids : a[2] <= pub.numAds} \cup {Undef},
                      ok \in BOOLEAN}

\* The variables the tracker leaves alone.
trackOther == <<cfg, store, pc, id, recurLimit, attempt, adCid, hist, ret, iter, cr, vf, hs>>

\* RunDistanceTracker and the start of tracker.run: the tracks of the
\* included providers that are not excluded, or discovery when include is
\* empty.
RunDistanceTracker ==
    /\ pc = "idle"
    /\ trk.tpc = "none"
    /\ \E include \in SUBSET Providers, exclude \in SUBSET Providers :
        trk' = [trk EXCEPT !.tpc = "timer", !.include = include, !.exclude = exclude,
                           !.lookForNew = (include = {}),
                           !.tracks = [p \in {q \in include : ~Excluded(q, exclude)}
                                          |-> NoTrack]]
    /\ UNCHANGED <<pub, cs, trackOther>>

\* tracker.run, case <-timer.C: refresh the cache (the tracker returns if
\* that fails), add the providers newly listed, and start updateTracks.
runTimer ==
    /\ trk.tpc = "timer"
    /\ trk.polls < MaxPolls
    /\ \/ trk' = [trk EXCEPT !.tpc = "closed", !.closed = TRUE, !.endedBy = "refresh"]
       \/ \E p \in Providers, pi \in PinfoChoices :
            LET pinfo == [trk.pinfo EXCEPT ![p] = pi]
                listed == {q \in Providers : pinfo[q].present}
                new == IF trk.lookForNew
                       THEN {q \in listed : q \notin DOMAIN trk.tracks
                                            /\ ~Excluded(q, trk.exclude)}
                       ELSE {}
                tracks == [q \in DOMAIN trk.tracks \cup new |->
                             IF q \in DOMAIN trk.tracks THEN trk.tracks[q] ELSE NoTrack]
            IN trk' = [trk EXCEPT !.pinfo = pinfo, !.tracks = tracks,
                                  !.changed = IF pi = trk.pinfo[p] THEN @ ELSE @ \cup {p},
                                  !.todo = DOMAIN tracks, !.tpc = "tracks",
                                  !.polls = @ + 1]
    /\ UNCHANGED <<pub, cs, trackOther>>

\* tracker.updateTrack for one of the tracks updateTracks has not visited
\* yet (map order): pcache.Get fails and it returns, or it updates the
\* track and has an update to send or none.
updateTrack ==
    /\ trk.tpc = "tracks"
    /\ \E pid \in trk.todo :
        LET visited == [trk EXCEPT !.todo = @ \ {pid},
                                   !.changed = @ \ {pid},
                                   !.same = (pid \notin trk.changed),
                                   !.at = pid]
        IN \/ trk' = [visited EXCEPT !.outcome = "cacheErr"] /\ UNCHANGED cs
           \/ \E o \in updateTrackOutcomes(trk.tracks[pid], pid, trk.pinfo[pid], cs) :
                LET after == [visited EXCEPT !.tracks[pid] = o.track,
                                             !.outcome = IF o.track.errType = errTypeUpdate
                                                         THEN "queryErr" ELSE "done"]
                IN /\ cs' = o.cs
                   /\ trk' = IF o.upd = NoUpdate
                             THEN after
                             ELSE [after EXCEPT !.sending = o.upd, !.tpc = "send"]
    /\ UNCHANGED <<pub, trackOther>>

\* tkr.updates <- DistanceUpdate{...}: the channel is unbuffered, the send
\* completes when the consumer receives.
SendUpdate ==
    /\ trk.tpc = "send"
    /\ trk.consumer = "recv"
    /\ trk' = [trk EXCEPT !.last[trk.sending.id] = trk.sending, !.sending = NoUpdate,
                          !.tpc = "tracks"]
    /\ UNCHANGED <<pub, cs, trackOther>>

\* updateTracks has visited every track: timer.Reset(tkr.updateIn)
updateTracksDone ==
    /\ trk.tpc = "tracks"
    /\ trk.todo = {}
    /\ trk' = [trk EXCEPT !.tpc = "timer", !.same = FALSE, !.at = Undef,
                          !.outcome = "none"]
    /\ UNCHANGED <<pub, cs, trackOther>>

\* tracker.run, case <-ctx.Done(): return, which closes the updates channel.
runCtxDone ==
    /\ trk.tpc = "timer"
    /\ trk.ctxDone
    /\ trk' = [trk EXCEPT !.tpc = "closed", !.closed = TRUE, !.endedBy = "ctx"]
    /\ UNCHANGED <<pub, cs, trackOther>>

\* The caller cancels the context it gave RunDistanceTracker.
CancelTracker ==
    /\ trk.tpc \notin {"none", "closed"}
    /\ ~trk.ctxDone
    /\ trk' = [trk EXCEPT !.ctxDone = TRUE]
    /\ UNCHANGED <<pub, cs, trackOther>>

\* The consumer stops receiving from the updates channel.
ConsumerStops ==
    /\ trk.tpc \notin {"none", "closed"}
    /\ trk.consumer = "recv"
    /\ trk' = [trk EXCEPT !.consumer = "stopped"]
    /\ UNCHANGED <<pub, cs, trackOther>>

\* The publisher publishes a new advertisement: the chain head moves.
Publish ==
    /\ trk.tpc \notin {"none", "closed"}
    /\ pub.numAds < MaxAds
    /\ pub' = [pub EXCEPT !.numAds = @ + 1]
    /\ trk' = [trk EXCEPT !.changed = Providers]
    /\ UNCHANGED <<cs, trackOther>>

\* -------------------------------------------------------------- SpecTrack
InitTrack ==
    /\ \E l \in 0..1 :
        cfg = [entriesDepthLimit |-> 0, adChainDepthLimit |-> l, maxSyncRetry |-> 0,
               delAfterRead |-> FALSE]
    /\ pub = [numChunks |-> 1, chunkLen |-> ChunkLens(1, 0), numAds |-> 1]
    /\ store = {}
    /\ pc = "idle"
    /\ id = Undef
    /\ recurLimit = 0
    /\ attempt = 0
    /\ adCid = Undef
    /\ hist = NoHist
    /\ ret = NoRet
    /\ iter = NoIter
    /\ cs = NoCs
    /\ ExtIdle

\* The steps of the tracker task.
TrackerStep == runTimer \/ updateTrack \/ SendUpdate \/ updateTracksDone \/ runCtxDone

NextTrack ==
    \/ RunDistanceTracker
    \/ runTimer
    \/ updateTrack
    \/ SendUpdate
    \/ updateTracksDone
    \/ runCtxDone
    \/ CancelTracker
    \/ ConsumerStops
    \/ Publish

SpecTrack == InitTrack /\ [][NextTrack]_vars

\* The tracker goroutine keeps running whenever it can take a step; the
\* consumer and the caller are under no obligation.
SpecTrackLive == SpecTrack /\ WF_vars(TrackerStep)

\* --------------------------------------------------------- SpecTrackAppend
\* The indexer's record of a provider only moves forward: once it names a
\* last advertisement it keeps naming one, at or ahead of the one before
\* (and, as in every refresh, at or behind the publisher's head).
LastAdAdvances ==
    \A p \in Providers :
        trk.pinfo[p].last /= Undef
            => /\ trk'.pinfo[p].present
               /\ trk'.pinfo[p].last /= Undef
               /\ trk'.pinfo[p].last[2] >= trk.pinfo[p].last[2]

NextTrackAppend ==
    \/ RunDistanceTracker
    \/ runTimer /\ LastAdAdvances
    \/ updateTrack
    \/ SendUpdate
    \/ updateTracksDone
    \/ runCtxDone
    \/ CancelTracker
    \/ ConsumerStops
    \/ Publish

\* The tracker on an append-only chain with an indexer that never goes back.
SpecTrackAppend == InitTrack /\ [][NextTrackAppend]_vars

\* The same, with distance queries that fail only before they have
\* committed a block: the count store is empty whenever a query starts.
NextTrackFresh ==
    \/ RunDistanceTracker
    \/ runTimer /\ LastAdAdvances
    \/ updateTrack /\ cs' = NoCs
    \/ SendUpdate
    \/ updateTracksDone
    \/ runCtxDone
    \/ CancelTracker
    \/ ConsumerStops
    \/ Publish

SpecTrackFresh == InitTrack /\ [][NextTrackFresh]_vars

\* ----------------------------------------------------------- SpecTrackSeen
\* The tracker of one included provider after the poll that made its first
\* observation: the indexer is at the head of a chain of one advertisement,
\* the update with distance 0 was received. Polls are counted from here.
InitTrackSeen ==
    /\ \E l \in 0..1 :
        cfg = [entriesDepthLimit |-> 0, adChainDepthLimit |-> l, maxSyncRetry |-> 0,
               delAfterRead |-> FALSE]
    /\ pub = [numChunks |-> 1, chunkLen |-> ChunkLens(1, 0), numAds |-> 1]
    /\ store = {}
    /\ pc = "idle"
    /\ id = Undef
    /\ recurLimit = 0
    /\ attempt = 0
    /\ adCid = Undef
    /\ hist = NoHist
    /\ ret = NoRet
    /\ iter = NoIter
    /\ cs = NoCs
    /\ cr = NoCrawl
    /\ vf = NoVerify
    /\ hs = NoHosts
    /\ trk = [NoTrk EXCEPT
                 !.tpc = "timer",
                 !.include = {ProvId(1)},
                 !.tracks = [p \in {ProvId(1)} |->
                               [NoTrack EXCEPT !.head = AdCid(1), !.ad = AdCid(1)]],
                 !.pinfo[ProvId(1)] = [present |-> TRUE, last |-> AdCid(1),
                                       pubOK |-> TRUE],
                 !.last[ProvId(1)] = DistUpdate(ProvId(1), 0),
                 !.changed = Providers \ {ProvId(1)}]

NextTrackSeen ==
    \/ runTimer
    \/ updateTrack
    \/ SendUpdate
    \/ updateTracksDone
    \/ runCtxDone
    \/ CancelTracker
    \/ ConsumerStops
    \/ Publish

SpecTrackSeen == InitTrackSeen /\ [][NextTrackSeen]_vars

\* ----------------------------------------------------------- verify ingest
\* The pseudo-random source: rand.New(rand.NewSource(seed)) is a fixed
\* function of the seed; a linear congruential generator stands for it.
rngMod == 8
rngMul == 5
rngInc == 3
NewSource(seed) == seed % rngMod
rngNext(r) == (r * rngMul + rngInc) % rngMod

\* The values of --sampling-prob the command is run with, as T / rngMod:
\* one half, and 1.
Probs == {rngMod \div 2, rngMod}

\* time.Now().UnixNano()
Clock == 1..MaxSeed

\* if rngSeed == 0 { rngSeed = time.Now().UnixNano() }
EffectiveSeed(seed, now) == IF seed = 0 THEN now ELSE seed

\* include(): always true when samplingProb == 1, else
\* rng.Float64() <= samplingProb, with samplingProb = T / rngMod.
include(always, T, r) ==
    IF always
    THEN [ok |-> TRUE, rng |-> r]
    ELSE [ok |-> rngNext(r) <= T, rng |-> rngNext(r)]

\* for each mh { if include() { append } }: the selection and the source after it.
RECURSIVE Select(_, _, _, _, _)
Select(always, T, r, mhs, sel) ==
    IF mhs = <<>>
    THEN [sel |-> sel, rng |-> r]
    ELSE LET x == include(always, T, r)
         IN Select(always, T, x.rng, Tail(mhs),
                   IF x.ok THEN Append(sel, Head(mhs)) ELSE sel)

\* The multihashes of source k (an advertisement of the walk, or the CAR index).
Mhs(k, n) == [j \in 1..n |-> <<k, j>>]

\* What the indexer can answer for one multihash.
Classes == {"present", "mismatch", "absent"}
Count(f, c) == Cardinality({k \in DOMAIN f : f[k] = c})

\* result.FailedToVerify = len(mhs)
FailedBatchMut(n) == 0
FailedBatch(n) == n

\* verifyIngest on a batch of n multihashes: the find fails, or the response
\* is empty, or every multihash is counted in the bucket its result falls in.
verifyIngestOutcomes(n) ==
    {[NoResult EXCEPT !.total = n, !.failed = FailedBatch(n)]}
        \cup {[NoResult EXCEPT !.total = n, !.absent = n]}
        \cup {[total |-> n, mismatch |-> Count(f, "mismatch"),
               present |-> Count(f, "present"), absent |-> Count(f, "absent"),
               failed |-> 0] : f \in [1..n -> Classes]}

\* verifyResult.add
add(r, other) ==
    [total |-> r.total + other.total, mismatch |-> r.mismatch + other.mismatch,
     present |-> r.present + other.present, absent |-> r.absent + other.absent,
     failed |-> r.failed + other.failed]

\* verifyIngestFromMhs on n multihashes: full batches, then the rest. Each
\* outcome is the aggregated result and the result of the last batch.
RECURSIVE verifyIngestFromMhs(_, _, _)
verifyIngestFromMhs(n, chunkSize, acc) ==
    IF n >= chunkSize
    THEN UNION {verifyIngestFromMhs(n - chunkSize, chunkSize,
                                    [res |-> add(acc.res, b), batch |-> b]) :
                  b \in verifyIngestOutcomes(chunkSize)}
    ELSE IF n /= 0
         THEN {[res |-> add(acc.res, b), batch |-> b] : b \in verifyIngestOutcomes(n)}
         ELSE {acc}

\* Context IDs, and the advertisements the publisher can serve to the walk.
Ctxs == {"c1", "c2"}
VAds == [isRm : BOOLEAN, ctx : Ctxs, n : 0..MaxMh]

\* AdStats.Sample, up to the draining of the entries: the removed-context
\* map after it, and whether the ad is marked no longer provided.
AdStatsSample(ctxIDRm, ad) ==
    IF ad.isRm
    THEN [ctxIDRm |-> (ad.ctx :> TRUE) @@ ctxIDRm, noLonger |-> FALSE]
    ELSE IF ad.ctx \in DOMAIN ctxIDRm /\ ctxIDRm[ad.ctx]
         THEN [ctxIDRm |-> ctxIDRm, noLonger |-> TRUE]
         ELSE [ctxIDRm |-> (ad.ctx :> FALSE) @@ ctxIDRm, noLonger |-> FALSE]

\* The variables the verify command leaves alone.
verifyOther == <<cfg, pub, store, pc, id, recurLimit, attempt, adCid, hist, ret, iter, cs,
                 cr, trk, hs>>

\* beforeVerifyIngest: the sampler from --sampling-prob and --rng-seed. The
\* command is run a first time with any valid flags, and a second time with
\* the same flags on the same CAR index.
beforeVerifyIngest ==
    /\ pc = "idle"
    /\ \/ vf.vpc = "none"
       \/ vf.vpc = "done" /\ vf.run = 1 /\ vf.src = "car"
    /\ \E seed \in 0..MaxSeed, T \in Probs, bs \in 1..MaxBatch, now \in Clock :
        /\ vf.run = 1 => (seed = vf.seedArg /\ T = vf.T /\ bs = vf.batchSize)
        /\ LET always == (T = rngMod)
               rngSeed == IF always THEN seed ELSE EffectiveSeed(seed, now)
           IN vf' = [NoVerify EXCEPT !.vpc = "ready", !.run = vf.run + 1,
                                     !.seedArg = seed, !.T = T, !.batchSize = bs,
                                     !.always = always, !.rngSeed = rngSeed,
                                     !.rng = NewSource(rngSeed),
                                     !.n = vf.n, !.prevSel = vf.sel]
    /\ UNCHANGED verifyOther

\* verifyIngestFromCarIterableIndex: select from the index, then verify.
verifyIngestFromCarIterableIndex ==
    /\ vf.vpc = "ready"
    /\ \E n \in 0..MaxIdx :
        /\ vf.run = 2 => n = vf.n
        /\ LET x == Select(vf.always, vf.T, vf.rng, Mhs(0, n), <<>>)
           IN \E o \in verifyIngestFromMhs(Len(x.sel), vf.batchSize,
                                           [res |-> NoResult, batch |-> NoResult]) :
                vf' = [vf EXCEPT !.vpc = "done", !.src = "car", !.n = n, !.sel = x.sel,
                                 !.rng = x.rng, !.batch = o.batch, !.res = o.res,
                                 !.agg = o.res]
    /\ UNCHANGED verifyOther

\* verifyIngestFromProvider up to the walk: --ad-depth-limit, NewAdStats.
verifyIngestFromProvider ==
    /\ vf.vpc = "ready"
    /\ vf.run = 1
    /\ \E l \in 0..MaxWalk :
        vf' = [vf EXCEPT !.vpc = "walk", !.src = "prov", !.adDepthLimit = l, !.i = 1]
    /\ UNCHANGED verifyOther

\* One iteration of the walk: fetch the advertisement, skip it, or sample
\* it and verify the sample; then follow PreviousID.
verifyAd ==
    /\ vf.vpc = "walk"
    /\ vf.i <= vf.adDepthLimit
    /\ vf.hasPrev
    /\ \E ad \in VAds, hasPrev \in BOOLEAN :
        LET step == [vf EXCEPT !.i = @ + 1, !.hasPrev = hasPrev,
                               !.rmSeen = IF ad.isRm THEN @ \cup {ad.ctx} ELSE @]
            seen(noLonger, submitted) ==
                [isRm |-> ad.isRm, ctx |-> ad.ctx, afterRm |-> ad.ctx \in vf.rmSeen,
                 noLonger |-> noLonger, submitted |-> submitted]
        IN IF ad.isRm \/ ad.n = 0
           THEN vf' = [step EXCEPT !.last = seen(FALSE, 0)]
           ELSE LET ads == AdStatsSample(vf.ctxIDRm, ad)
                    x == Select(vf.always, vf.T, vf.rng, Mhs(vf.i, ad.n), <<>>)
                IN IF ads.noLonger
                   THEN vf' = [step EXCEPT !.last = seen(TRUE, 0)]
                   ELSE \E o \in verifyIngestFromMhs(Len(x.sel), vf.batchSize,
                                                     [res |-> NoResult, batch |-> vf.batch]) :
                          vf' = [step EXCEPT !.ctxIDRm = ads.ctxIDRm, !.rng = x.rng,
                                             !.last = seen(FALSE, Len(x.sel)),
                                             !.batch = o.batch,
                                             !.res = IF x.sel = <<>> THEN @ ELSE o.res,
                                             !.agg = IF x.sel = <<>> THEN @
                                                     ELSE add(@, o.res)]
    /\ UNCHANGED verifyOther

\* The walk is over: the depth limit is reached or there is no previous ad.
verifyWalkEnd ==
    /\ vf.vpc = "walk"
    /\ vf.i > vf.adDepthLimit \/ ~vf.hasPrev
    /\ vf' = [vf EXCEPT !.vpc = "done"]
    /\ UNCHANGED verifyOther

\* ------------------------------------------------------------- SpecVerify
InitVerify ==
    /\ cfg = [entriesDepthLimit |-> 0, adChainDepthLimit |-> 0, maxSyncRetry |-> 0,
              delAfterRead |-> FALSE]
    /\ pub = [numChunks |-> 1, chunkLen |-> ChunkLens(1, 0), numAds |-> 1]
    /\ store = {}
    /\ pc = "idle"
    /\ id = Undef
    /\ recurLimit = 0
    /\ attempt = 0
    /\ adCid = Undef
    /\ hist = NoHist
    /\ ret = NoRet
    /\ iter = NoIter
    /\ cs = NoCs
    /\ ExtIdle

NextVerify ==
    \/ beforeVerifyIngest
    \/ verifyIngestFromCarIterableIndex
    \/ verifyIngestFromProvider
    \/ verifyAd
    \/ verifyWalkEnd

SpecVerify == InitVerify /\ [][NextVerify]_vars

\* ---------------------------------------------------------------- options
defaultEntriesDepthLimit == 1000
defaultDepthLimit == 5000

ErrNegativeDepth == "ad entries depth limit cannot be negative"

\* An option of package adpub applied to a config: WithEntriesDepthLimit,
\* WithMaxSyncRetry, WithDeleteAfterRead.
ApplyOption(c, o) ==
    CASE o.opt = "WithEntriesDepthLimit" ->
            IF o.v < 0
            THEN [c EXCEPT !.err = ErrNegativeDepth]
            ELSE [c EXCEPT !.entriesDepthLimit = o.v]
      [] o.opt = "WithMaxSyncRetry" -> [c EXCEPT !.maxSyncRetry = o.v]
      [] o.opt = "WithDeleteAfterRead" -> [c EXCEPT !.delAfterRead = o.v]

\* adpub.getOpts: the defaults, then the options in order up to the first
\* that fails. maxSyncRetry and delAfterRead start at their zero values.
RECURSIVE ApplyOptions(_, _)
ApplyOptions(c, opts) ==
    IF opts = <<>> \/ c.err /= ErrNil
    THEN c
    ELSE ApplyOptions(ApplyOption(c, Head(opts)), Tail(opts))

getOpts(opts) ==
    ApplyOptions([entriesDepthLimit |-> defaultEntriesDepthLimit, maxSyncRetry |-> 0,
                  delAfterRead |-> FALSE, err |-> ErrNil], opts)

\* dtrack.getOpts with WithDepthLimit options: each sets c.depthLimit.
RECURSIVE dtrackApplyOptions(_, _)
dtrackApplyOptions(c, opts) ==
    IF opts = <<>>
    THEN c
    ELSE dtrackApplyOptions([c EXCEPT !.depthLimit = Head(opts).v], Tail(opts))

dtrackGetOpts(opts) ==
    dtrackApplyOptions([depthLimit |-> defaultDepthLimit, err |-> ErrNil], opts)

\* The depth limit options a constructor is called with: none, or one with
\* a negative, zero or positive limit.
DepthOptions(kind) ==
    {<<>>} \cup {<<[opt |-> IF kind = "client" THEN "WithEntriesDepthLimit"
                            ELSE "WithDepthLimit", v |-> l]>> : l \in -1..1}

\* -------------------------------------------------------------- SpecPerAd
\* What the get, crawl and verify commands do with the entries of each
\* advertisement they are handed. cr holds the command, its --skip-entries
\* flag, the advertisement at hand (removal or not, and its entries root:
\* undefined, the no-entries sentinel, or a chunk), and the calls the
\* command made for it.
AdShapes == [isRm : BOOLEAN, entries : {Undef, NoEntries, ChunkCid(1)}]

NoCalls == [sync |-> FALSE, drain |-> FALSE]

\* Advertisement.HasEntries: a.Entries != nil && a.Entries.IsPresent(); the
\* decoded record has no iterator when the entries link is cid.Undef.
HasEntriesMut(root) == root /= Undef
HasEntries(root) == root /= Undef /\ isPresent(root)

\* The command is handed its next advertisement: GetAdvertisement in get
\* and verify, a receive from the ads channel in crawl. The advertisement
\* alone was synced.
perAdFetch ==
    /\ cr.step \in {"start", "done"}
    /\ cr.i < MaxAds
    /\ \E ad \in AdShapes :
        cr' = [cr EXCEPT !.step = "decoded", !.i = @ + 1, !.ad = ad, !.calls = NoCalls]
    /\ UNCHANGED <<store, crawlOther>>

\* get and crawl: continue at a removal, at an advertisement without
\* entries and under --skip-entries; otherwise SyncEntriesWithRetry, and
\* Drain unless the sync failed.
GetOrCrawlEntries(cmd) ==
    /\ cr.cmd = cmd
    /\ cr.step = "decoded"
    /\ IF cr.ad.isRm \/ ~HasEntries(cr.ad.entries) \/ cr.skipEntries
       THEN cr' = [cr EXCEPT !.step = "done"]
       ELSE \E syncErr \in BOOLEAN :
                cr' = [cr EXCEPT !.step = "done", !.nSync = @ + 1,
                                 !.calls = [sync |-> TRUE, drain |-> ~syncErr]]
    /\ UNCHANGED <<store, crawlOther>>

adsGetEntries == GetOrCrawlEntries("get")

adsCrawlEntries == GetOrCrawlEntries("crawl")

\* verify: skip a removal and an advertisement without entries; otherwise
\* SyncEntriesWithRetry (a failure is only printed), then stats.Sample,
\* which drains unless the context ID was removed by a later advertisement.
verifyAdEntries ==
    /\ cr.cmd = "verify"
    /\ cr.step = "decoded"
    /\ IF cr.ad.isRm \/ ~HasEntries(cr.ad.entries)
       THEN cr' = [cr EXCEPT !.step = "done"]
       ELSE \E noLonger \in BOOLEAN :
                cr' = [cr EXCEPT !.step = "done", !.nSync = @ + 1,
                                 !.calls = [sync |-> TRUE, drain |-> ~noLonger]]
    /\ UNCHANGED <<store, crawlOther>>

InitPerAd ==
    /\ cfg = [entriesDepthLimit |-> 0, adChainDepthLimit |-> 0, maxSyncRetry |-> 0,
              delAfterRead |-> FALSE]
    /\ pub = [numChunks |-> 1, chunkLen |-> ChunkLens(1, 0), numAds |-> 1]
    /\ store = {}
    /\ pc = "idle"
    /\ id = Undef
    /\ recurLimit = 0
    /\ attempt = 0
    /\ adCid = Undef
    /\ hist = NoHist
    /\ ret = NoRet
    /\ iter = NoIter
    /\ cs = NoCs
    /\ trk = NoTrk
    /\ vf = NoVerify
    /\ hs = NoHosts
    /\ \E cmd \in {"get", "crawl", "verify"}, skip \in BOOLEAN :
        /\ cmd = "verify" => ~skip
        /\ cr = [cmd |-> cmd, skipEntries |-> skip, step |-> "start", i |-> 0,
                 ad |-> [isRm |-> FALSE, entries |-> Undef], calls |-> NoCalls,
                 nSync |-> 0]

NextPerAd ==
    \/ perAdFetch
    \/ adsGetEntries
    \/ adsCrawlEntries
    \/ verifyAdEntries

SpecPerAd == InitPerAd /\ [][NextPerAd]_vars

\* ------------------------------------------------------------- SpecCommit
\* The two link systems by themselves: blocks are committed to the client's
\* store and to the count store, in any order and any number of times. A
\* block is its CID (the CID is the hash of the bytes). ret remembers the
\* commit and the state it found, and whether the commit before it was
\* the same block to the same store.
\* ClientStore's StorageWriteOpener committer: store.Put(key(c), bytes).
ClientCommit(st, c) == st \cup {c}

CommittedBlocks == {AdCid(i) : i \in 1..MaxAds} \cup {ChunkCid(i) : i \in 1..MaxChunks}

CommitRet(kind, c) ==
    [op |-> "Commit", err |-> ErrNil, kind |-> kind, cid |-> c,
     twice |-> ret.op = "Commit" /\ ret.kind = kind /\ ret.cid = c,
     preStore |-> store, preCs |-> cs]

ClientStoreCommit ==
    /\ \E c \in CommittedBlocks :
        /\ store' = ClientCommit(store, c)
        /\ ret' = CommitRet("block", c)
    /\ UNCHANGED <<cfg, pub, pc, id, recurLimit, attempt, adCid, hist, iter, cs>>
    /\ UNCHANGED extVars

CountStoreCommit ==
    /\ cs.count < MaxCount
    /\ \E c \in CommittedBlocks :
        /\ cs' = CountCommit(cs, c)
        /\ ret' = CommitRet("count", c)
    /\ UNCHANGED <<cfg, pub, store, pc, id, recurLimit, attempt, adCid, hist, iter>>
    /\ UNCHANGED extVars

InitCommit ==
    /\ cfg = [entriesDepthLimit |-> 0, adChainDepthLimit |-> 0, maxSyncRetry |-> 0,
              delAfterRead |-> FALSE]
    /\ pub = [numChunks |-> 1, chunkLen |-> ChunkLens(1, 0), numAds |-> 1]
    /\ store = {}
    /\ pc = "idle"
    /\ id = Undef
    /\ recurLimit = 0
    /\ attempt = 0
    /\ adCid = Undef
    /\ hist = NoHist
    /\ ret = NoRet
    /\ iter = NoIter
    /\ cs = NoCs
    /\ ExtIdle

NextCommit ==
    \/ ClientStoreCommit
    \/ CountStoreCommit

SpecCommit == InitCommit /\ [][NextCommit]_vars

\* -------------------------------------------------------------- SpecBatch
\* verifyIngestFromMhs step by step, on a list of n multihashes with the
\* value of --batch-size as the flag parser hands it over (an int, not
\* validated by the command). vf holds the loop: the multihashes left, the
\* sizes of the batches submitted, the aggregated result.
\* for len(mhs) >= chunkSize { verifyIngest(mhs[:chunkSize]); mhs = mhs[chunkSize:] }
\* mhs[:chunkSize] with a negative chunkSize is a run-time panic.
verifyIngestFromMhsLoop ==
    /\ vf.vpc = "loop"
    /\ vf.rest >= vf.chunkSize
    /\ Len(vf.batches) < MaxCalls
    /\ IF vf.chunkSize < 0
       THEN vf' = [vf EXCEPT !.vpc = "panic"]
       ELSE \E b \in verifyIngestOutcomes(vf.chunkSize) :
                vf' = [vf EXCEPT !.rest = @ - vf.chunkSize,
                                 !.batches = Append(@, vf.chunkSize),
                                 !.res = add(@, b)]
    /\ UNCHANGED verifyOther

\* if len(mhs) != 0 { verifyIngest(mhs) }; return aggResult, nil
verifyIngestFromMhsRest ==
    /\ vf.vpc = "loop"
    /\ ~(vf.rest >= vf.chunkSize)
    /\ IF vf.rest /= 0
       THEN \E b \in verifyIngestOutcomes(vf.rest) :
                vf' = [vf EXCEPT !.rest = 0, !.batches = Append(@, vf.rest),
                                 !.res = add(@, b), !.vpc = "returned"]
       ELSE vf' = [vf EXCEPT !.vpc = "returned"]
    /\ UNCHANGED verifyOther

InitBatch ==
    /\ cfg = [entriesDepthLimit |-> 0, adChainDepthLimit |-> 0, maxSyncRetry |-> 0,
              delAfterRead |-> FALSE]
    /\ pub = [numChunks |-> 1, chunkLen |-> ChunkLens(1, 0), numAds |-> 1]
    /\ store = {}
    /\ pc = "idle"
    /\ id = Undef
    /\ recurLimit = 0
    /\ attempt = 0
    /\ adCid = Undef
    /\ hist = NoHist
    /\ ret = NoRet
    /\ iter = NoIter
    /\ cs = NoCs
    /\ cr = NoCrawl
    /\ trk = NoTrk
    /\ hs = NoHosts
    /\ \E n \in 0..MaxIdx, bs \in -1..MaxBatch :
        vf = [vpc |-> "loop", n |-> n, chunkSize |-> bs, rest |-> n, batches |-> <<>>,
              res |-> NoResult]

NextBatch ==
    \/ verifyIngestFromMhsLoop
    \/ verifyIngestFromMhsRest

SpecBatch == InitBatch /\ [][NextBatch]_vars

\* -------------------------------------------------------------- SpecReads
\* One client used for every command that reads the store: advertisements
\* fetched and listed, their entries synced and drained, one call after the
\* other, or the crawl command run on its newly constructed client.
InitReads ==
    /\ \E del \in BOOLEAN :
        cfg = [entriesDepthLimit |-> 0, adChainDepthLimit |-> 0, maxSyncRetry |-> 0,
               delAfterRead |-> del]
    /\ \E n \in 1..(MaxAds - 1), m \in 1..(MaxChunks - 1) :
        pub = [numChunks |-> m, chunkLen |-> ChunkLens(m, 0), numAds |-> n]
    /\ store = {}
    /\ pc = "idle"
    /\ id = Undef
    /\ recurLimit = 0
    /\ attempt = 0
    /\ adCid = Undef
    /\ hist = NoHist
    /\ ret = NoRet
    /\ iter = NoIter
    /\ cs = NoCs
    /\ ExtIdle

\* The client a command has just constructed: nothing stored, no call made.
FreshClient == store = {} /\ hist = NoHist /\ ret = NoRet /\ iter = NoIter

NextReads ==
    \/ cr.ppc = "none" /\ GetAdvertisement
    \/ cr.ppc = "none" /\ SyncAdAttempt
    \/ cr.ppc = "none" /\ getAdvertisement
    \/ cr.ppc = "none" /\ SyncEntriesWithRetry
    \/ cr.ppc = "none" /\ SyncEntriesAttempt
    \/ cr.ppc = "none" /\ Drain
    \/ cr.ppc = "none" /\ List
    \/ FreshClient /\ adsCrawlAction
    \/ Crawl
    \/ crawlLoad
    \/ crawlSend
    \/ crawlCtxDone
    \/ CrawlReturn
    \/ CloseAds
    \/ RangeReceive
    \/ RangeEnd
    \/ RangeBody
    \/ CrawlCancel
    \/ CrawlWait

SpecReads == InitReads /\ [][NextReads]_vars

\* "Defaults to 10 if unset" (comment of WithMaxSyncRetry)
documentedMaxSyncRetry == 10

\* ----------------------------------------------------------- SpecDefaults
\* A client and a distance engine constructed without any option, then
\* advertisements fetched one call after the other.
InitDefaults ==
    /\ cfg = [entriesDepthLimit |-> getOpts(<<>>).entriesDepthLimit,
              adChainDepthLimit |-> dtrackGetOpts(<<>>).depthLimit,
              maxSyncRetry |-> getOpts(<<>>).maxSyncRetry,
              delAfterRead |-> getOpts(<<>>).delAfterRead]
    /\ \E n \in 1..MaxAds :
        pub = [numChunks |-> 1, chunkLen |-> ChunkLens(1, 0), numAds |-> n]
    /\ store = {}
    /\ pc = "idle"
    /\ id = Undef
    /\ recurLimit = 0
    /\ attempt = 0
    /\ adCid = Undef
    /\ hist = NoAdHist
    /\ ret = NoRet
    /\ iter = NoIter
    /\ cs = NoCs
    /\ ExtIdle

SpecDefaults == InitDefaults /\ [][NextAd]_vars

\* ------------------------------------------------------------------ hosts
\* ownsHost: the constructor made the host because none was given
\* (opts.p2pHost == nil); 0 stands for nil.
OwnsHostMut(given) == TRUE
OwnsHost(given) == given = 0

\* The open hosts the caller made itself and can hand to a constructor.
SuppliedHosts == {h \in 1..Len(hs.hosts) : hs.hosts[h].ext /\ hs.hosts[h].open}

\* The variables the constructors and Close leave alone.
hostOther == <<cfg, pub, store, pc, id, recurLimit, attempt, adCid, hist, ret, iter, cs,
               cr, trk, vf>>

\* The caller makes a libp2p host of its own.
CallerNewHost ==
    /\ Cardinality({h \in 1..Len(hs.hosts) : hs.hosts[h].ext}) < MaxHosts
    /\ hs' = [hs EXCEPT !.hosts = Append(@, [open |-> TRUE, ext |-> TRUE])]
    /\ UNCHANGED hostOther

\* NewClient / NewAdDistance / RunDistanceTracker with depth limit and host
\* options: getOpts, libp2p.New when no host is given, then
\* dagsync.NewSubscriber, which may fail; RunDistanceTracker then starts its
\* task.
New(kind) ==
    /\ Len(hs.clients) < MaxClients
    /\ \E given \in {0} \cup SuppliedHosts, subOK \in BOOLEAN, opts \in DepthOptions(kind) :
        /\ given = 0 =>
              Cardinality({h \in 1..Len(hs.hosts) : ~hs.hosts[h].ext}) < MaxClients
        /\ LET c == IF kind = "client" THEN getOpts(opts) ELSE dtrackGetOpts(opts)
               hosts == IF given = 0
                        THEN Append(hs.hosts, [open |-> TRUE, ext |-> FALSE])
                        ELSE hs.hosts
               host == IF given = 0 THEN Len(hosts) ELSE given
               last == [kind |-> kind, opts |-> opts, err |-> c.err, madeHost |-> FALSE,
                        madeSub |-> FALSE, task |-> FALSE]
           IN IF c.err /= ErrNil
              THEN hs' = [hs EXCEPT !.last = last]
              ELSE hs' = [hosts |-> hosts,
                          clients |-> IF subOK
                                      THEN Append(hs.clients,
                                                  [kind |-> kind, host |-> host,
                                                   ownsHost |-> OwnsHost(given),
                                                   created |-> (given = 0),
                                                   closed |-> FALSE])
                                      ELSE hs.clients,
                          last |-> [last EXCEPT !.madeHost = (given = 0),
                                                !.madeSub = subOK,
                                                !.task = (subOK /\ kind = "tracker")]]
    /\ UNCHANGED hostOther

NewClient == New("client")

NewAdDistance == New("dist")

\* RunDistanceTracker: NewAdDistance(options...), then go tkr.run(ctx).
TrackerNewAdDistance == New("tracker")

\* client.Close / AdDistance.Close: close the subscriber, and the host if owned.
Close(kind) ==
    /\ \E c \in 1..Len(hs.clients) :
        /\ hs.clients[c].kind = kind
        /\ ~hs.clients[c].closed
        /\ hs' = [hs EXCEPT !.clients[c].closed = TRUE,
                            !.hosts[hs.clients[c].host].open =
                                IF hs.clients[c].ownsHost THEN FALSE ELSE @]
    /\ UNCHANGED hostOther

clientClose == Close("client")

AdDistanceClose == Close("dist")

\* tracker.run returns: defer tkr.adDist.Close()
TrackerAdDistanceClose == Close("tracker")

\* -------------------------------------------------------------- SpecHosts
InitHosts == InitVerify

NextHosts ==
    \/ CallerNewHost
    \/ NewClient
    \/ NewAdDistance
    \/ TrackerNewAdDistance
    \/ clientClose
    \/ AdDistanceClose
    \/ TrackerAdDistanceClose

SpecHosts == InitHosts /\ [][NextHosts]_vars

\* ------------------------------------------------------------ claims C1..
ContentErrs == {ErrNotExists, ErrMsgContentNotFound}

RECURSIVE ConcatEntries(_, _)
\* The multihashes of chunks from..to of the chain, in chain order.
ConcatEntries(from, to) ==
    IF from > to THEN <<>>
    ELSE ChunkEntries(ChunkCid(from)) \o ConcatEntries(from + 1, to)

\* Number of chunks of the longest prefix of the chain held in st.
RECURSIVE PrefixLen(_, _)
PrefixLen(st, n) ==
    IF n < pub.numChunks /\ ChunkCid(n + 1) \in st THEN PrefixLen(st, n + 1) ELSE n

FirstChunks(n) == {ChunkCid(i) : i \in 1..n}

\* C1: in SyncEntriesWithRetry a sync attempt that fails with a
\* content-not-found failure ends the call at once with ErrContentNotFound:
\* no later attempt and no backoff sleep follow it, for every maxSyncRetry
\* and after any number of earlier attempts.
Thm_C1_ContentNotFoundTerminal ==
    (hist.op = "SyncEntriesWithRetry" /\ hist.lastErr \in ContentErrs)
        => /\ pc = "idle"
           /\ hist.done
           /\ hist.err = ErrContentNotFound
           /\ hist.sleeps = hist.syncs - 1

Wit_C1_ContentNotFoundAfterRetry ==
    /\ hist.op = "SyncEntriesWithRetry"
    /\ hist.lastErr \in ContentErrs
    /\ hist.syncs >= 2
    /\ cfg.maxSyncRetry >= 2
    /\ hist.err = ErrContentNotFound

\* The bounds of C4 in one state: attempts, sleeps, and the error returned
\* once the attempt count exceeds maxSyncRetry.
EntriesRetryBound ==
    hist.op = "SyncEntriesWithRetry"
        => /\ hist.syncs <= cfg.maxSyncRetry + 1
           /\ hist.sleeps <= cfg.maxSyncRetry
           /\ (~hist.done => hist.sleeps = hist.syncs)
           /\ (attempt > cfg.maxSyncRetry
                => /\ hist.done
                   /\ hist.err = ErrMaxRetriesEntries
                   /\ hist.cause = hist.lastErr
                   /\ hist.cause = ErrTransport)

\* C4: SyncEntriesWithRetry always returns, having made at most
\* maxSyncRetry + 1 sync attempts and at most maxSyncRetry backoff sleeps,
\* and once the attempt count exceeds maxSyncRetry it has returned an error
\* wrapping the last attempt's failure.
Thm_C4_EntriesRetryBound ==
    /\ []EntriesRetryBound
    /\ (pc = "SyncEntriesWithRetry") ~> (pc = "idle")

Wit_C4_EntriesRetriesExhausted ==
    /\ hist.op = "SyncEntriesWithRetry"
    /\ cfg.maxSyncRetry = MaxRetry
    /\ hist.syncs = MaxRetry + 1
    /\ hist.sleeps = MaxRetry
    /\ hist.err = ErrMaxRetriesEntries

\* C6: for entriesDepthLimit L >= 1 every sync attempt of a
\* SyncEntriesWithRetry call is issued with a depth r >= 1 such that the
\* depth of its start CID below the entries root plus r equals L.
Claim_C6_DepthBudgetKept ==
    (hist.op = "SyncEntriesWithRetry" /\ cfg.entriesDepthLimit >= 1)
        => \A i \in 1..Len(hist.log) :
              /\ hist.log[i][2] >= 1
              /\ (hist.log[i][1][2] - hist.root[2]) + hist.log[i][2] = cfg.entriesDepthLimit

\* C7: with entriesDepthLimit = 0 every sync attempt of a
\* SyncEntriesWithRetry call is handed the depth 0.
Claim_C7_UnlimitedStaysUnlimited ==
    (hist.op = "SyncEntriesWithRetry" /\ cfg.entriesDepthLimit = 0)
        => \A i \in 1..Len(hist.log) : hist.log[i][2] = 0


\* C5: (a) when the store held no chunk, maxSyncRetry = 0 and the single
\* sync attempt got N < numChunks chunks before it failed, the store holds
\* exactly the first N chunks when SyncEntriesWithRetry returns, and a Drain
\* of the fresh iterator then returns exactly the multihashes of those N
\* chunks in chain order with datastore.ErrNotFound and ChunkCount() = N;
\* (b) every Drain of a fresh iterator returns the multihashes of the
\* longest stored prefix of the chain, without error iff that prefix is the
\* whole chain.
Claim_C5_PartialRecovery ==
    LET n == hist.served
        failedAfterN == /\ hist.op = "SyncEntriesWithRetry"
                        /\ hist.done
                        /\ cfg.maxSyncRetry = 0
                        /\ hist.pre = {}
                        /\ hist.lastErr /= ErrNil
                        /\ n < pub.numChunks
        freshDrain == ret.op = "Drain" /\ ret.from = NewIter(ChunkCid(1))
    IN /\ (failedAfterN /\ ret.op = "none") => StoredChunks(store) = FirstChunks(n)
       /\ (failedAfterN /\ freshDrain /\ ret.pre = FirstChunks(n))
            => /\ ret.mhs = ConcatEntries(1, n)
               /\ ret.err = ErrNotFound
               /\ iter.chunkCount = n
       /\ freshDrain
            => LET k == PrefixLen(ret.pre, 0)
               IN /\ ret.mhs = ConcatEntries(1, k)
                  /\ (ret.err = ErrNil <=> k = pub.numChunks)
                  /\ (ret.err /= ErrNil => ret.err = ErrNotFound)

\* The same statement for chains whose chunks all carry multihashes.
Aux_C5_NoEmptyChunk ==
    (\A i \in 1..pub.numChunks : pub.chunkLen[i] > 0) => Claim_C5_PartialRecovery

\* C2: when the publisher fails the first k advertisement fetches of a
\* GetAdvertisement call and serves every later one, the call succeeds iff
\* k <= maxSyncRetry, and a successful call has slept exactly k times and
\* made exactly k + 1 sync attempts (for a call whose first attempt is not
\* answered from the store).
Thm_C2_RetryDeterminism ==
    (hist.op = "GetAdvertisement" /\ hist.done /\ ~hist.local)
        => /\ (hist.err = ErrNil <=> hist.failK <= cfg.maxSyncRetry)
           /\ (hist.err = ErrNil
                 => /\ hist.sleeps = hist.failK
                    /\ hist.syncs = hist.failK + 1
                    /\ hist.ad \in AdCids)

Wit_C2_SucceedsOnLastRetry ==
    /\ hist.op = "GetAdvertisement"
    /\ hist.done
    /\ ~hist.local
    /\ hist.err = ErrNil
    /\ hist.failK = MaxRetry
    /\ cfg.maxSyncRetry = MaxRetry
    /\ hist.sleeps = MaxRetry

\* C3: in GetAdvertisement a sync attempt that fails with a publisher
\* content error (content not found / ErrNotExists) ends the call at once
\* with ErrContentNotFound, for every maxSyncRetry: no later attempt and no
\* backoff sleep follow it.
Claim_C3_AdContentErrorTerminal ==
    (hist.op = "GetAdvertisement" /\ hist.lastErr \in ContentErrs)
        => /\ hist.done
           /\ hist.err = ErrContentNotFound
           /\ hist.sleeps = hist.syncs - 1

\* The chain from advertisement c back to the one without PreviousID.
RECURSIVE ChainFrom(_)
ChainFrom(c) == IF c = Undef THEN <<>> ELSE <<c>> \o ChainFrom(PreviousID(c))

\* C8: for adChainDepthLimit L >= 1 and oldest at or behind newest on the
\* chain, a distance query that succeeds returns d, the number of
\* advertisements from newest down to but not including oldest, when
\* d <= L, and -1 when d > L.
Claim_C8_DistanceArithmetic ==
    (/\ ret.op \in {"Distance", "AdDistance.Get"}
     /\ ret.err = ErrNil
     /\ cfg.adChainDepthLimit >= 1
     /\ ret.oldest[2] <= ret.newest[2])
        => LET d == ret.newest[2] - ret.oldest[2]
           IN /\ (d <= cfg.adChainDepthLimit => ret.dist = d)
              /\ (d > cfg.adChainDepthLimit => ret.dist = -1)

\* The same statement for client.Distance alone, whose count store is new
\* in every call.
Aux_C8_FreshStoreDistance ==
    ret.op = "Distance" => Claim_C8_DistanceArithmetic

\* C9: with adChainDepthLimit = 0 a distance query that succeeds never
\* returns -1: it returns the number of advertisements from newest down to
\* but not including oldest.
Claim_C9_UnlimitedDistance ==
    (/\ ret.op \in {"Distance", "AdDistance.Get"}
     /\ ret.err = ErrNil
     /\ cfg.adChainDepthLimit = 0
     /\ ret.oldest[2] <= ret.newest[2])
        => /\ ret.dist /= -1
           /\ ret.dist = ret.newest[2] - ret.oldest[2]

\* C10: List with n <= 0 that returns no error has written the CID of
\* every advertisement from latestCid (the head when undefined) back to the
\* advertisement without PreviousID, one per line, newest first.
Claim_C10_ListAll ==
    (ret.op = "List" /\ ret.n <= 0 /\ ret.err = ErrNil)
        => ret.out = ChainFrom(ret.head)

\* C11: a List with n >= 1 that returns no error has written a prefix of
\* head, head.previous, head.previous.previous, ... starting at latestCid
\* (the head when undefined): exactly min(n, chain length) lines, none
\* after the advertisement without PreviousID.
Thm_C11_ListIsChainPrefix ==
    (ret.op = "List" /\ ret.n >= 1 /\ ret.err = ErrNil)
        => /\ ret.head = ResolveHead(ret.latest)
           /\ ret.out = SubSeq(ChainFrom(ret.head), 1, Min(ret.n, ret.head[2]))

Wit_C11_ListCutShort ==
    /\ ret.op = "List"
    /\ ret.err = ErrNil
    /\ ret.latest = Undef
    /\ ret.n = 2
    /\ pub.numAds = MaxAds
    /\ Len(ret.out) = 2

\* The crawl has come to its end: the producer has returned and closed the
\* channel, and adsCrawlAction has its result.
CrawlOver == cr.ppc = "end" /\ cr.adsClosed /\ cr.cpc = "done"

\* C12: once the context of a running crawl is cancelled (by the command's
\* context or by cancel()), also while the producer is blocked sending on
\* the full channel and the consumer has stopped receiving, the producer
\* returns, the channel is closed and the consumer's wait for the result
\* returns; the producer sends nothing after it has returned.
Thm_C12_CrawlCancelNoDeadlock ==
    /\ (cr.ppc /= "none" /\ (cr.parentDone \/ cr.cancelled)) ~> CrawlOver
    /\ [][cr.ppc \in {"ret", "close", "end"} => cr'.sent = cr.sent]_vars

\* The crawl is over, the last advertisement sent was never received, and
\* the advertisement loaded after it was never sent: the producer left a
\* send on the full channel.
Wit_C12_BlockedSendThenOver ==
    /\ CrawlOver
    /\ cr.ads /= <<>>
    /\ cr.sending /= Undef
    /\ \A k \in 1..Len(cr.sent) : cr.sent[k] /= cr.sending
    /\ cr.result = ErrNil


\* C13: tracker edge triggering. When a provider's cached info and the
\* publisher's chain head have not changed since the previous poll, the
\* poll does not emit, for that provider, the very update it emitted last
\* (an identical error, or an identical distance, -1 included). Stated for
\* a depth limit of at least 1, where -1 means the limit was exceeded.
Claim_C13_EdgeTriggered ==
    (trk.tpc = "send" /\ trk.same /\ cfg.adChainDepthLimit >= 1)
        => trk.sending /= trk.last[trk.sending.id]


\* C14: once the driving context is cancelled the tracker eventually
\* returns and closes its updates channel, wherever it is suspended and
\* whether or not the consumer still receives.
Claim_C14_CancelClosesUpdates == (trk.tpc /= "none" /\ trk.ctxDone) ~> trk.closed


\* C15: when the update of one tracked provider fails (its cache lookup or
\* its distance query ends with an error, a timeout included), the failure
\* is on that provider's track as an update error, and the tracker has not
\* ended: it goes on with the tracks it has not visited yet.
Claim_C15_FailureIsUpdateError ==
    (trk.outcome \in {"cacheErr", "queryErr"})
        => /\ trk.tracks[trk.at].errType = errTypeUpdate
           /\ trk.tpc \in {"tracks", "send"}
           /\ ~trk.closed


\* C16: the tracker never has an update to send for an excluded provider;
\* with a non-empty include set it tracks, and sends updates for, only
\* providers of include minus exclude; with an empty include set, once the
\* cache is refreshed it tracks every listed provider that is not excluded.
Thm_C16_IncludeExclude ==
    /\ (trk.tpc = "send")
         => /\ trk.sending.id \notin trk.exclude
            /\ (trk.include /= {} => trk.sending.id \in trk.include)
    /\ (trk.tpc /= "none" /\ trk.include /= {})
         => DOMAIN trk.tracks \subseteq (trk.include \ trk.exclude)
    /\ (trk.tpc \in {"tracks", "send"} /\ trk.include = {})
         => \A q \in Providers :
              (trk.pinfo[q].present /\ q \notin trk.exclude) => q \in DOMAIN trk.tracks
    /\ \A q \in trk.exclude : q \notin DOMAIN trk.tracks /\ trk.last[q] = NoUpdate

\* An update is about to be sent while the cache lists an excluded provider
\* and discovery is on.
Wit_C16_ExcludedListedOtherSent ==
    /\ trk.tpc = "send"
    /\ trk.include = {}
    /\ \E q \in trk.exclude : trk.pinfo[q].present
    /\ \E q \in Providers : trk.last[q] /= NoUpdate


\* Sum of the buckets of a verify result.
Buckets(r) == r.present + r.mismatch + r.absent + r.failed

\* C17: every checked multihash is counted in exactly one bucket: in the
\* result of a batch, in the result of an advertisement's batches and in the
\* result aggregated over the advertisements, present + provider_mismatch +
\* absent + failed_to_verify = total_checked; a batch whose find failed is
\* wholly in failed_to_verify.
Thm_C17_BucketsSumToTotal ==
    /\ Buckets(vf.batch) = vf.batch.total
    /\ Buckets(vf.res) = vf.res.total
    /\ Buckets(vf.agg) = vf.agg.total
    /\ vf.batch.failed \in {0, vf.batch.total}

\* Several batches and advertisements were verified, one batch failed to
\* reach the indexer and another was answered.
Wit_C17_FailedAndAnsweredBatches ==
    /\ vf.vpc = "done"
    /\ vf.src = "prov"
    /\ vf.i > 2
    /\ vf.agg.failed >= 1
    /\ vf.agg.present >= 1
    /\ vf.agg.mismatch >= 1
    /\ vf.agg.absent >= 1


\* C18: removal masking. In the verify-ingest walk, a non-removal
\* advertisement visited after a removal advertisement for the same context
\* is masked: none of its multihashes is sampled and submitted to the
\* indexer.
Claim_C18_RemovalMasking ==
    (vf.src = "prov" /\ ~vf.last.isRm /\ vf.last.afterRm) => vf.last.submitted = 0

\* C19: sampler determinism. Two runs with the same sampling probability
\* below 1, the same --rng-seed value given on the command line (any int64
\* value) and the same multihash sequence select the same multihashes.
Claim_C19_SeededSamplerDeterministic ==
    (vf.vpc = "done" /\ vf.src = "car" /\ vf.run = 2 /\ ~vf.always)
        => vf.sel = vf.prevSel


\* C20: Close closes the libp2p host if and only if the client or distance
\* engine created that host itself: after Close a created host is closed,
\* and a host supplied by the caller is still open, so the other clients
\* that share it can go on using it.
Thm_C20_CloseOwnedHostOnly ==
    /\ \A c \in 1..Len(hs.clients) :
        /\ hs.clients[c].closed
             => (hs.hosts[hs.clients[c].host].open <=> ~hs.clients[c].created)
        /\ ~hs.clients[c].closed => hs.hosts[hs.clients[c].host].open
    /\ \A h \in 1..Len(hs.hosts) : hs.hosts[h].ext => hs.hosts[h].open

\* A client and a distance engine share a supplied host, one of them is
\* closed and the other is not, and a client that made its host is closed.
Wit_C20_SharedHostOneClosed ==
    \E a, b, c \in 1..Len(hs.clients) :
        /\ a /= b
        /\ hs.clients[a].host = hs.clients[b].host
        /\ hs.clients[a].kind /= hs.clients[b].kind
        /\ hs.clients[a].closed
        /\ ~hs.clients[b].closed
        /\ hs.clients[c].created
        /\ hs.clients[c].closed


\* C21: a negative depth limit is a construction error: a publisher
\* client, a distance engine or a distance tracker constructed with a
\* negative depth limit returns an error, and no host, subscriber or
\* background task has been created by that call.
Claim_C21_NegativeDepthRejected ==
    (hs.last.kind /= "none" /\ hs.last.opts /= <<>> /\ hs.last.opts[1].v < 0)
        => /\ hs.last.err /= ErrNil
           /\ ~hs.last.madeHost
           /\ ~hs.last.madeSub
           /\ ~hs.last.task


\* C24: a client constructed without a max_sync_retry option retries a
\* failed advertisement sync up to 10 times: a call that gives up on an
\* error that is not a content error has made 11 sync attempts.
Claim_C24_DefaultRetryIsTen ==
    (hist.op = "GetAdvertisement" /\ hist.done /\ hist.err /= ErrNil
        /\ hist.lastErr \notin ContentErrs)
        => hist.syncs = documentedMaxSyncRetry + 1


\* C22: ChunkCount equals the number of chunks the iterator has loaded so
\* far (with delete-after-read: the chunks its reads removed), and when the
\* Next calls of a drain started on a fresh iterator first return io.EOF it
\* equals the number of chunks of the entries chain.
Claim_C22_ChunkCountAtEOF ==
    (ret.op = "Drain" /\ ret.from = NewIter(ChunkCid(1)))
        => /\ cfg.delAfterRead
                => iter.chunkCount = Cardinality(ret.pre \ StoredChunks(store))
           /\ ret.err = ErrNil => iter.chunkCount = pub.numChunks

\* The same statement for chains whose chunks all carry multihashes.
Aux_C22_NoEmptyChunk ==
    (\A i \in 1..pub.numChunks : pub.chunkLen[i] > 0) => Claim_C22_ChunkCountAtEOF


\* What one step of a command does to the blocks it reads.
ReadsDeleteBlocks ==
    LET listed == pc = "idle" /\ ret'.op = "List" /\ cr' = cr
        drained == pc = "idle" /\ ret'.op = "Drain" /\ cr' = cr
        decoded == pc = "idle" /\ ret'.op = "getAdvertisement" /\ cr' = cr
        fetched == pc = "GetAdvertisement" /\ hist'.done /\ hist'.err = ErrNil
        crawled == cr.ppc = "crawl" /\ cr'.ppc = "select"
        loaded == iter'.chunkCount - ret'.from.chunkCount
    IN /\ ~cfg.delAfterRead => store \subseteq store'
       /\ (cfg.delAfterRead /\ listed)
            => \A i \in 1..Len(ret'.out) : loadAd(store', ret'.out[i]).err = ErrNotFound
       /\ (cfg.delAfterRead /\ drained)
            => \A k \in 1..loaded :
                getEntriesChunk(store', ChunkCid(ret'.from.next[2] + k - 1)).err
                    = ErrNotFound
       /\ (cfg.delAfterRead /\ decoded)
            => \E a \in store : a[1] = "ad" /\ store' = store \ {a}
       /\ (cfg.delAfterRead /\ fetched) => loadAd(store', hist'.ad).err = ErrNotFound
       /\ (cfg.delAfterRead /\ crawled) => loadAd(store', cr'.sending).err = ErrNotFound

\* C23: with delete-after-read set, a block that List, Crawl,
\* GetAdvertisement or the entries iterator has read successfully is gone
\* from the store when the read returns (reading it again gives NotFound);
\* with the mode off no step removes a block from the store.
Thm_C23_DeleteAfterRead == [][ReadsDeleteBlocks]_vars

Wit_C23_DrainedChunksGone ==
    /\ cfg.delAfterRead
    /\ ret.op = "Drain"
    /\ ret.err = ErrNil
    /\ ret.pre = {ChunkCid(1), ChunkCid(2)}
    /\ iter.chunkCount = 2
    /\ StoredChunks(store) = {}


\* A step of the retry loop that made a sync attempt which failed with
\* an error that is not a content error.
FailedAttemptStep ==
    /\ pc = "SyncEntriesWithRetry"
    /\ hist'.syncs = hist.syncs + 1
    /\ hist'.lastErr /= ErrNil
    /\ hist'.lastErr \notin ContentErrs

\* The chunks of the chain from the chunk with CID c on that st lacks.
MissingFrom(st, c) == {j \in c[2]..pub.numChunks : ChunkCid(j) \notin st}

\* A failed attempt that is retried leaves the loop at the first chunk
\* the store lacks, with the limit less the chunks stepped over.
RetryFromFirstMissing ==
    (FailedAttemptStep /\ pc' = "SyncEntriesWithRetry")
        => \E j \in MissingFrom(store', id) :
            /\ \A k \in MissingFrom(store', id) : j <= k
            /\ id' = ChunkCid(j)
            /\ recurLimit' = recurLimit - (j - id[2])
            /\ attempt' <= cfg.maxSyncRetry

\* C25: after a failed attempt that is retried, the next attempt of
\* SyncEntriesWithRetry starts at the first CID along the next links from
\* the previous start whose block the store lacks, and its depth limit is
\* the previous limit minus the number of stored chunks stepped over.
Thm_C25_RetryStartsAtFirstMissing == [][RetryFromFirstMissing]_vars

Wit_C25_RetrySteppedOverChunks ==
    /\ pc = "SyncEntriesWithRetry"
    /\ hist.sleeps = 1
    /\ hist.log = <<<<ChunkCid(1), cfg.entriesDepthLimit>>>>
    /\ id = ChunkCid(3)
    /\ recurLimit = cfg.entriesDepthLimit - 2
    /\ recurLimit >= 1

\* A failed attempt within the retry bound after which no chunk from the
\* current start to the end of the chain is missing ends the call with
\* success, without a sleep.
NothingMissingReturns ==
    (FailedAttemptStep /\ attempt' <= cfg.maxSyncRetry /\ MissingFrom(store', id) = {})
        => /\ pc' = "idle"
           /\ hist'.done
           /\ hist'.err = ErrNil
           /\ hist'.sleeps = hist.sleeps

\* C26: when, after a failed attempt whose count does not exceed
\* maxSyncRetry, the walk of the store from the current start reaches the
\* end of the chain without meeting a missing chunk, SyncEntriesWithRetry
\* returns success without another sync attempt or sleep.
Thm_C26_NothingMissingIsSuccess == [][NothingMissingReturns]_vars

Wit_C26_FailedAttemptAllStored ==
    /\ hist.op = "SyncEntriesWithRetry"
    /\ hist.done
    /\ hist.err = ErrNil
    /\ hist.lastErr = ErrTransport
    /\ hist.syncs = 1
    /\ hist.sleeps = 0
    /\ cfg.maxSyncRetry >= 1
    /\ pub.numChunks >= 2
    /\ hist.pre = {ChunkCid(j) : j \in 1..pub.numChunks}


\* C27: the walk reports "no missing chunk" (and a call whose sync failed
\* returns success) only when every chunk from the current start to the
\* end of the chain is stored and readable; a read failure other than
\* NotFound does not end SyncEntriesWithRetry with success.
Claim_C27_SuccessOnlyWhenAllReadable ==
    [][(FailedAttemptStep /\ hist'.done /\ hist'.err = ErrNil)
            => \A j \in id[2]..pub.numChunks :
                getNextChunkLink(store', ChunkCid(j)).err = ErrNil]_vars


\* C28: the count store of the distance engine is fresh (count 0, no
\* remembered block) at the start of every query, also after a query that
\* failed, so that a query counts only the blocks committed during it.
Claim_C28_CountStoreFresh ==
    pc = "idle" => cs = NoCs


\* C29: a track whose head is defined never has dist = -1: whenever a
\* distance query of the tracker returns -1 the track is left with its head
\* undefined, and -1 is what the tracker emits.
Claim_C29_HeadDefinedDistKnown ==
    \A p \in DOMAIN trk.tracks :
        trk.tracks[p].head /= Undef => trk.tracks[p].dist /= -1


\* The same statement when the indexer's last advertisement never goes back.
Aux_C29_AppendOnly == Claim_C29_HeadDefinedDistKnown

\* C30: on an append-only chain, with the last seen advertisement on the
\* chain at or behind the head, the incremental bookkeeping keeps
\* track.dist equal to the distance from track.head to the last seen
\* advertisement, and every distance the tracker emits (other than -1) is
\* that distance, which is what a fresh query from the head would return.
Claim_C30_IncrementalIsFresh ==
    /\ \A p \in DOMAIN trk.tracks :
        LET t == trk.tracks[p]
        IN t.head /= Undef => t.dist = t.head[2] - t.ad[2]
    /\ (trk.tpc = "send" /\ trk.sending.err[1] = ErrNil /\ trk.sending.dist /= -1)
        => LET t == trk.tracks[trk.sending.id]
           IN /\ t.head /= Undef
              /\ trk.sending.dist = t.head[2] - t.ad[2]

\* The same statement when no query starts on a count store that holds
\* the blocks of a failed one (checked under SpecTrackFresh).
Aux_C30_FreshCountStore == Claim_C30_IncrementalIsFresh


\* C31: every update without error the tracker emits carries -1 or a
\* distance d with 0 <= d <= depth limit; a lag larger than the depth limit
\* is reported as -1, never as a number.
Claim_C31_EmittedWithinLimit ==
    (trk.tpc = "send" /\ trk.sending.err[1] = ErrNil)
        => \/ trk.sending.dist = -1
           \/ /\ 0 <= trk.sending.dist
              /\ trk.sending.dist <= cfg.adChainDepthLimit


\* One poll of one provider: a step of updateTrack.
PollStep == trk.tpc = "tracks" /\ trk'.todo /= trk.todo

\* The poll of this step has an error update to send.
PollSendsError == trk'.tpc = "send" /\ trk'.sending.err[1] /= ErrNil

\* C32: error-type memoization. A poll that ends in error kind K has an
\* error update to send exactly when the kind stored when the poll
\* started differs from K, so that consecutive polls of a provider that
\* end in the same kind send one update; a poll that ends without error
\* sends no error update.
Claim_C32_ErrorKindMemoized ==
    [][PollStep =>
        LET p == trk'.at
            before == trk.tracks[p].errType
            after == trk'.tracks[p].errType
        IN IF trk'.outcome = "cacheErr" THEN trk'.tpc = "tracks"
           ELSE IF after = errTypeNone THEN ~PollSendsError
           ELSE PollSendsError <=> before /= after]_vars


\* C33: recovery is reported. When the tracker has nothing left to send, a
\* provider whose last received update is an error has an error kind
\* stored on its track: the first poll that succeeds after an error update
\* emits a distance update.
Claim_C33_RecoveryReported ==
    (trk.tpc \in {"timer", "tracks"})
        => \A p \in DOMAIN trk.tracks :
            trk.last[p].err[1] /= ErrNil => trk.tracks[p].errType /= errTypeNone


\* C34: while the driving context is not cancelled the tracker does not
\* close its updates channel: a failed refresh of the provider cache is
\* followed by another poll, like any other failed step of a poll.
Claim_C34_OpenUntilCancelled ==
    trk.closed => trk.ctxDone


RECURSIVE SumSeq(_)
SumSeq(q) == IF q = <<>> THEN 0 ELSE Head(q) + SumSeq(Tail(q))

\* C35: for every list of multihashes and every --batch-size the verify
\* command accepts, batching terminates and submits each multihash in
\* exactly one batch of at most batch-size multihashes: no call of
\* verifyIngest is made with an empty or oversized batch (so the list left
\* shrinks with every call), the slicing never panics, and on return
\* TotalMhChecked is the length of the list.
Claim_C35_BatchingTerminates ==
    /\ vf.vpc /= "panic"
    /\ \A i \in 1..Len(vf.batches) :
        1 <= vf.batches[i] /\ vf.batches[i] <= vf.chunkSize
    /\ SumSeq(vf.batches) + vf.rest = vf.n
    /\ vf.vpc = "returned" => (vf.rest = 0 /\ vf.res.total = vf.n)

\* The same statement for batch sizes of at least 1.
Aux_C35_PositiveBatchSize ==
    vf.chunkSize >= 1 => Claim_C35_BatchingTerminates


\* Advertisements the provider walk has fetched.
AdsVisited == vf.i - 1

\* C36: verify-ingest from a provider with --ad-depth-limit 0 (unlimited)
\* walks every advertisement from the start back to one with no previous
\* link; with a limit k >= 1 it visits exactly min(k, chain length)
\* advertisements.
Claim_C36_WalkLength ==
    (vf.vpc = "done" /\ vf.src = "prov")
        => IF vf.adDepthLimit = 0
           THEN AdsVisited >= 1 /\ ~vf.hasPrev
           ELSE \/ AdsVisited = vf.adDepthLimit
                \/ ~vf.hasPrev /\ 1 <= AdsVisited /\ AdsVisited < vf.adDepthLimit

\* The same statement for limits of at least 1.
Aux_C36_PositiveLimit ==
    vf.adDepthLimit >= 1 => Claim_C36_WalkLength


\* The multihashes an iterator has not returned yet: the rest of the chunk
\* it holds, then the chunks from its next link to the end of the chain.
Remaining(it) ==
    (IF it.hasChunk THEN SubSeq(it.mhs, it.offset + 1, Len(it.mhs)) ELSE <<>>)
        \o (IF isPresent(it.next) THEN ConcatEntries(it.next[2], pub.numChunks)
            ELSE <<>>)

\* C37: Next returns io.EOF only when the whole chain is consumed, and once
\* it has returned io.EOF every later Next returns io.EOF; so a Drain that
\* returns no error has returned every multihash of every chunk not yet
\* read, in chain order, also when chunks are empty.
Claim_C37_EOFOnlyAtEnd ==
    (ret.op = "Drain" /\ ret.err = ErrNil)
        => /\ ~isPresent(iter.next)
           /\ IterNext(iter, store).err = ErrEOF
           /\ ret.mhs = Remaining(ret.from)

\* The same statement for chains whose chunks all carry multihashes.
Aux_C37_NoEmptyChunk ==
    (\A i \in 1..pub.numChunks : pub.chunkLen[i] > 0) => Claim_C37_EOFOnlyAtEnd


\* C38: commit is idempotent for both stores: committing a block a second
\* time leaves the store as the first commit left it, with the same
\* readable blocks and the same count.
Claim_C38_CommitIdempotent ==
    (ret.op = "Commit" /\ ret.twice)
        => /\ store = ret.preStore
           /\ cs.lastKey = ret.preCs.lastKey
           /\ cs.count = ret.preCs.count

\* The same statement without the count: what can be read from either
\* store is the same after the second commit.
Aux_C38_ReadableIdempotent ==
    (ret.op = "Commit" /\ ret.twice)
        => /\ store = ret.preStore
           /\ cs.lastKey = ret.preCs.lastKey


\* C39: a failed construction leaves no resource behind: when
\* dagsync.NewSubscriber fails after the constructor of a client or a
\* distance engine made its own libp2p host, that host is closed before the
\* error is returned; so every open host that a constructor made belongs
\* to a client or engine that is not closed.
Claim_C39_FailedNewClosesHost ==
    \A h \in 1..Len(hs.hosts) :
        (~hs.hosts[h].ext /\ hs.hosts[h].open)
            => \E c \in 1..Len(hs.clients) :
                hs.clients[c].host = h /\ ~hs.clients[c].closed

\* The same statement as long as no subscriber has failed to start: a host
\* is left open without an owner only by a constructor that failed.
Aux_C39_LeakOnlyByFailedNew ==
    [][(Claim_C39_FailedNewClosesHost /\ ~Claim_C39_FailedNewClosesHost')
        => (hs'.last.madeHost /\ ~hs'.last.madeSub)]_vars


\* C40: for a removal advertisement and for an advertisement whose entries
\* root is undefined or the no-entries sentinel the commands go straight on
\* to the next advertisement: fetching the advertisement syncs no entries,
\* and get, crawl and verify call neither SyncEntriesWithRetry nor Drain
\* for it.
Thm_C40_NoEntriesSyncForRemovalOrEmpty ==
    /\ cr.step = "decoded" => cr.calls = NoCalls
    /\ (cr.step = "done" /\ (cr.ad.isRm \/ ~isPresent(cr.ad.entries)))
            => cr.calls = NoCalls

\* The command has synced the entries of an earlier advertisement and has
\* just passed an advertisement that carries the no-entries sentinel.
Wit_C40_SentinelAdPassed ==
    /\ cr.step = "done"
    /\ ~cr.ad.isRm
    /\ cr.ad.entries = NoEntries
    /\ ~cr.skipEntries
    /\ cr.nSync >= 1
    /\ cr.calls = NoCalls

====
